---- MODULE Spec2Model ----
(***************************************************************************)
(* Model of src/src/lib/i18n.svelte.ts: the locale controller (configure,  *)
(* initLocale, setLocale and the completion of its dynamic import), the    *)
(* key resolver (getNestedValue, findTranslationValue), the translate      *)
(* function t and the interpolation pipeline applyParams.                  *)
(*                                                                         *)
(* JavaScript strings are sequences of one-character strings, so that      *)
(* split, trim, the placeholder regular expression and string              *)
(* concatenation are computed the way the code computes them.  JavaScript  *)
(* values are records tagged with a "kind" field (the typeof of the value).*)
(***************************************************************************)
EXTENDS Naturals, Integers, Sequences, FiniteSets, Bags, TLC

VARIABLES
    config,            \* the module-level config object (lines 58-63)
    translations,      \* the translations store: locale -> the JSON module
                       \* stored for it, or undefined
    currentLocale,     \* the active locale
    failedLocaleLoads, \* locale -> flag of the failed-load cache
    inflight,          \* bag of setLocale calls suspended at `await import(...)`
    storage,           \* localStorage: key -> stored string or NULL
    env,               \* the runtime: dev flag, window present, navigator.language
    last,              \* the operation the last step performed
    console,           \* the console channels the last step wrote to
    tcall,             \* the last call of t: its arguments and its result
    history,           \* the setLocale calls and load completions since the
                       \* controller was last idle (no load in flight)
    vcall              \* the last run of the schema validator: the bundle, the
                       \* options and the issues it raised

vars == <<config, translations, currentLocale, failedLocaleLoads, inflight,
          storage, env, last, console, tcall, history, vcall>>

ctlvars == <<config, translations, currentLocale, failedLocaleLoads, inflight,
             storage, env, last, console, history, vcall>>

-----------------------------------------------------------------------------
(* JavaScript values *)

Undefined == [kind |-> "undefined"]
Null == [kind |-> "null"]
(* A function, with the text String(f) gives of it *)
JSFunctionOf(source) == [kind |-> "function", source |-> source]
(* The function of line 780 *)
JSFunction == JSFunctionOf(<<"(key) => key.endsWith('Count')">>)
(* A function of the runtime *)
NativeFunction(name) == JSFunctionOf(<<"function ", name, "() { [native code] }">>)
JSString(s) == [kind |-> "string", s |-> s]
JSNumber(n) == [kind |-> "number", n |-> n]
JSObject(m) == [kind |-> "object", m |-> m]
JSBoolean(b) == [kind |-> "boolean", b |-> b]
JSArray(items) == [kind |-> "array", items |-> items]

(* The type Locale of line 10, and the locale hard-wired at lines 72, 391. *)
Locales == {"en", "es", "fr"}
BaseLocale == "en"

-----------------------------------------------------------------------------
(* String primitives *)

RECURSIVE SplitFrom(_, _, _, _)
SplitFrom(s, sep, i, cur) ==
    IF i > Len(s) THEN <<cur>>
    ELSE IF s[i] = sep THEN <<cur>> \o SplitFrom(s, sep, i + 1, <<>>)
    ELSE SplitFrom(s, sep, i + 1, Append(cur, s[i]))

(* String.prototype.split with a one-character separator *)
Split(s, sep) == SplitFrom(s, sep, 1, <<>>)

RECURSIVE TrimStart(_)
TrimStart(s) == IF s # <<>> /\ Head(s) = " " THEN TrimStart(Tail(s)) ELSE s

RECURSIVE TrimEnd(_)
TrimEnd(s) ==
    IF s # <<>> /\ s[Len(s)] = " " THEN TrimEnd(SubSeq(s, 1, Len(s) - 1)) ELSE s

(* String.prototype.trim, for the blank character *)
Trim(s) == TrimEnd(TrimStart(s))

Digit(d) == <<"0", "1", "2", "3", "4", "5", "6", "7", "8", "9">>[d + 1]

IsDigit(c) == c \in {"0", "1", "2", "3", "4", "5", "6", "7", "8", "9"}

(* String(n) for a natural number n *)
RECURSIVE NatToString(_)
NatToString(n) ==
    IF n < 10 THEN <<Digit(n)>> ELSE NatToString(n \div 10) \o <<Digit(n % 10)>>

-----------------------------------------------------------------------------
(* Intl: the formatting primitives of the runtime, for the three locales *)

(* The CLDR grouping separator; fr uses U+202F NARROW NO-BREAK SPACE. *)
GroupSeparator(locale) ==
    CASE locale = "en" -> ","
      [] locale = "es" -> "."
      [] OTHER -> "U+202F"

(* CLDR minimumGroupingDigits: es groups only from five digits on. *)
MinimumGroupingDigits(locale) == IF locale = "es" THEN 2 ELSE 1

RECURSIVE GroupDigits(_, _)
GroupDigits(digits, sep) ==
    IF Len(digits) <= 3 THEN digits
    ELSE GroupDigits(SubSeq(digits, 1, Len(digits) - 3), sep)
             \o <<sep>> \o SubSeq(digits, Len(digits) - 2, Len(digits))

(* Number.prototype.toLocaleString(locale) for a natural number *)
NumberToLocaleString(n, locale) ==
    LET digits == NatToString(n)
    IN  IF Len(digits) >= 3 + MinimumGroupingDigits(locale)
        THEN GroupDigits(digits, GroupSeparator(locale))
        ELSE digits

(* The CLDR decimal separator *)
DecimalSeparator(locale) == IF locale = "en" THEN "." ELSE ","

RECURSIVE Zeros(_)
Zeros(k) == IF k = 0 THEN <<>> ELSE <<"0">> \o Zeros(k - 1)

(* A natural number with grouping and a fixed number of fraction digits *)
FixedDigits(n, fraction, locale) ==
    NumberToLocaleString(n, locale)
        \o (IF fraction = 0 THEN <<>>
            ELSE <<DecimalSeparator(locale)>> \o Zeros(fraction))

(* parseInt(s, 10): the value of the leading digits after an optional sign, *)
(* -1 standing for NaN and for a negative number (the code treats the two   *)
(* alike; -0 is not negative)                                               *)
RECURSIVE ParseDigits(_, _, _)
ParseDigits(s, i, acc) ==
    IF i > Len(s) \/ ~IsDigit(s[i]) THEN acc
    ELSE ParseDigits(s, i + 1,
                     acc * 10 + (CHOOSE d \in 0..9 : Digit(d) = s[i]))

ParseInt(s) ==
    LET signed == s # <<>> /\ s[1] \in {"+", "-"}
        digits == IF signed THEN Tail(s) ELSE s
    IN  IF digits = <<>> \/ ~IsDigit(digits[1]) THEN -1
        ELSE IF signed /\ s[1] = "-" /\ ParseDigits(digits, 1, 0) > 0 THEN -1
        ELSE ParseDigits(digits, 1, 0)

cInteger == <<"i", "n", "t", "e", "g", "e", "r">>
cPercent == <<"p", "e", "r", "c", "e", "n", "t">>
cCurrency == <<"c", "u", "r", "r", "e", "n", "c", "y">>

(* The largest minimumFractionDigits Intl.NumberFormat accepts on the       *)
(* runtime the code was run on; a larger one throws a RangeError            *)
MaxFractionDigits == 20

(* new Intl.NumberFormat(locale, options) of line 264 throws *)
NumberFormatThrows(formatType) ==
    /\ formatType \notin {cInteger, cPercent, cCurrency}
    /\ ParseInt(formatType) > MaxFractionDigits

(* Lines 223-273 with a format type, for a natural number:                  *)
(* new Intl.NumberFormat(locale, options).format(n), the options being      *)
(* those lines 230-264 build from the format type, and String(n) when the   *)
(* constructor throws (line 270)                                            *)
NumberFormat(n, formatType, locale) ==
    CASE formatType = cInteger ->
            FixedDigits(n, 0, locale)
      [] formatType = cPercent ->
            FixedDigits(n * 100, 0, locale)
                \o (CASE locale = "en" -> <<"%">>
                      [] OTHER -> <<"U+00A0", "%">>)
      [] formatType = cCurrency ->
            (CASE locale = "en" -> <<"$">> \o FixedDigits(n, 2, locale)
               [] locale = "es" -> FixedDigits(n, 2, locale) \o <<"U+00A0", "U", "S", "$">>
               [] OTHER -> FixedDigits(n, 2, locale) \o <<"U+00A0", "$", "U", "S">>)
      [] OTHER ->
            IF NumberFormatThrows(formatType) THEN NatToString(n)
            ELSE IF ParseInt(formatType) >= 0
            THEN FixedDigits(n, ParseInt(formatType), locale)
            ELSE FixedDigits(n, 0, locale)

-----------------------------------------------------------------------------
(* JavaScript objects: property lookup *)

cConstructor == <<"c", "o", "n", "s", "t", "r", "u", "c", "t", "o", "r">>
cValueOf == <<"v", "a", "l", "u", "e", "O", "f">>

(* Properties every plain object inherits from Object.prototype (those the  *)
(* model's keys can name); each is a function.                              *)
ObjectPrototypeKeys == {cConstructor, cValueOf}

(* The accessor every object inherits from Object.prototype: it reads the   *)
(* prototype of the object, unless the object has an own entry of that name *)
(* (as JSON.parse creates one)                                              *)
cProto == <<"_", "_", "p", "r", "o", "t", "o", "_", "_">>

(* Object.prototype, Date.prototype and Array.prototype, as far as the     *)
(* keys of the model can tell: each has its own constructor, the first two  *)
(* their own valueOf; Array.prototype is an array with no element           *)
ObjectPrototype ==
    JSObject((cConstructor :> NativeFunction("Object"))
                @@ (cValueOf :> NativeFunction("valueOf")))
DatePrototype ==
    JSObject((cConstructor :> NativeFunction("Date"))
                @@ (cValueOf :> NativeFunction("valueOf")))
ArrayPrototype ==
    [kind |-> "array", items |-> <<>>,
     m |-> (cConstructor :> NativeFunction("Array"))]

(* Object.getPrototypeOf(obj), which obj.__proto__ reads *)
PrototypeOf(obj) ==
    IF obj = ObjectPrototype THEN Null
    ELSE IF obj = ArrayPrototype \/ obj = DatePrototype THEN ObjectPrototype
    ELSE IF obj.kind = "array" THEN ArrayPrototype
    ELSE IF obj.kind = "date" THEN DatePrototype
    ELSE ObjectPrototype

cLength == <<"l", "e", "n", "g", "t", "h">>

(* The position of the element an index key of an array names, 0 when the   *)
(* key names none                                                           *)
ElementAt(items, key) ==
    IF \E i \in 1..Len(items) : NatToString(i - 1) = key
    THEN CHOOSE i \in 1..Len(items) : NatToString(i - 1) = key
    ELSE 0

(* Object.prototype.hasOwnProperty.call(obj, key), for a plain object, for  *)
(* an array (its indices and length) and for a Date (no own property);      *)
(* Object.prototype has the accessor __proto__ of its own                   *)
HasOwnProperty(obj, key) ==
    IF obj.kind = "array"
    THEN \/ key = cLength
         \/ ElementAt(obj.items, key) # 0
         \/ obj = ArrayPrototype /\ key \in DOMAIN obj.m
    ELSE IF obj.kind = "date" THEN FALSE
    ELSE key \in DOMAIN obj.m \/ (obj = ObjectPrototype /\ key = cProto)

(* key in obj: own or inherited *)
HasProperty(obj, key) ==
    HasOwnProperty(obj, key) \/ key \in ObjectPrototypeKeys \/ key = cProto

(* obj[key]: an own property, the prototype for an inherited __proto__, the *)
(* member of the nearest prototype that has one for an inherited name       *)
GetProperty(obj, key) ==
    IF obj.kind = "array" /\ key = cLength THEN JSNumber(Len(obj.items))
    ELSE IF obj.kind = "array" /\ ElementAt(obj.items, key) # 0
    THEN obj.items[ElementAt(obj.items, key)]
    ELSE IF HasOwnProperty(obj, key) /\ key # cProto THEN obj.m[key]
    ELSE IF HasOwnProperty(obj, key) /\ obj # ObjectPrototype THEN obj.m[key]
    ELSE IF key = cProto THEN PrototypeOf(obj)
    ELSE IF key \in ObjectPrototypeKeys
    THEN IF HasOwnProperty(PrototypeOf(obj), key) THEN PrototypeOf(obj).m[key]
         ELSE ObjectPrototype.m[key]
    ELSE Undefined

-----------------------------------------------------------------------------
(* Key resolver *)

RECURSIVE Reduce(_, _, _)
Reduce(prev, segments, i) ==
    IF i > Len(segments) THEN prev
    ELSE Reduce(IF prev.kind = "object" /\ HasProperty(prev, segments[i])
                THEN GetProperty(prev, segments[i])
                ELSE Undefined,
                segments, i + 1)

getNestedValue(obj, path) ==
    IF obj.kind = "undefined" THEN Undefined
    ELSE Reduce(obj, Split(path, "."), 1)

(* Variant: the fallback bundle is consulted first *)
findTranslationValue_FallbackFirst(key, primaryLocale, fallbackLocale, allTranslations) ==
    LET value == getNestedValue(allTranslations[fallbackLocale], key)
    IN  IF value.kind = "undefined" /\ primaryLocale # fallbackLocale
        THEN getNestedValue(allTranslations[primaryLocale], key)
        ELSE value

(* Variant: the fallback bundle is also consulted when the active bundle    *)
(* holds a value that is not a template                                     *)
findTranslationValue_TemplatesOnly(key, primaryLocale, fallbackLocale, allTranslations) ==
    LET value == getNestedValue(allTranslations[primaryLocale], key)
    IN  IF value.kind # "string" /\ primaryLocale # fallbackLocale
        THEN getNestedValue(allTranslations[fallbackLocale], key)
        ELSE value

(* Lines 132-151 *)
findTranslationValue(key, primaryLocale, fallbackLocale, allTranslations) ==
    LET value == getNestedValue(allTranslations[primaryLocale], key)
    IN  IF value.kind = "undefined" /\ primaryLocale # fallbackLocale
        THEN getNestedValue(allTranslations[fallbackLocale], key)
        ELSE value

-----------------------------------------------------------------------------
(* Interpolation pipeline *)

cZero == <<"z", "e", "r", "o">>
cCount == <<"c", "o", "u", "n", "t">>
cOne == <<"o", "n", "e">>
cOther == <<"o", "t", "h", "e", "r">>
cDate == <<"d", "a", "t", "e">>
cTime == <<"t", "i", "m", "e">>
cDatetime == <<"d", "a", "t", "e", "t", "i", "m", "e">>
cRelative == <<"r", "e", "l", "a", "t", "i", "v", "e">>
cList == <<"l", "i", "s", "t">>

(* String(n) for an integer n *)
IntToString(n) == IF n < 0 THEN <<"-">> \o NatToString(0 - n) ELSE NatToString(n)

(* An instant: ms milliseconds (0 <= ms < a day) after the start of the     *)
(* day that lies `days` days after 1 January 1970 UTC, that is              *)
(* days * 86400000 + ms milliseconds after the epoch.                       *)
DayMs == 86400000
Instant(days, ms) == [days |-> days, ms |-> ms]

(* A Date object holding an instant *)
JSDate(days, ms) == [kind |-> "date", days |-> days, ms |-> ms, valid |-> TRUE]

(* Date.parse(s) is not NaN.  Of the strings the model uses, V8 parses the  *)
(* four-digit ones (an ISO year) and rejects the others, which hold no      *)
(* digit and no month name.                                                 *)
DateParses(s) == Len(s) = 4 /\ \A i \in 1..4 : IsDigit(s[i])

(* The leap years from year 1 to year y of the proleptic Gregorian calendar *)
LeapYearsTo(y) == (y \div 4) - (y \div 100) + (y \div 400)

(* The days from 1 January 1970 to 1 January of a year *)
DaysToYear(year) == 365 * (year - 1970) + LeapYearsTo(year - 1) - LeapYearsTo(1969)

(* Array.prototype.join(","), which String(array) applies: null and         *)
(* undefined elements give the empty string, the others String(element)     *)
RECURSIVE JSToString(_)
RECURSIVE ArrayJoin(_)
RECURSIVE JoinValues(_, _)
ArrayJoin(items) ==
    IF items = <<>> THEN <<>>
    ELSE (IF items[1].kind \in {"null", "undefined"} THEN <<>>
          ELSE JSToString(items[1]))
             \o (IF Len(items) = 1 THEN <<>>
                 ELSE <<",">> \o ArrayJoin(Tail(items)))

(* String(value); the text of a Date is kept symbolic, the one of a         *)
(* function is its source                                                   *)
JSToString(value) ==
    CASE value.kind = "string" -> value.s
      [] value.kind = "number" -> NatToString(value.n)
      [] value.kind = "date" ->
            IF value.valid
            THEN <<"Date(">> \o IntToString(value.days) \o <<"d+">>
                     \o NatToString(value.ms) \o <<")">>
            ELSE <<"Invalid Date">>
      [] value.kind = "array" -> ArrayJoin(value.items)
      [] value.kind = "object" -> <<"[object Object]">>
      [] value.kind = "null" -> <<"null">>
      [] value.kind = "boolean" ->
            IF value.b THEN <<"t", "r", "u", "e">> ELSE <<"f", "a", "l", "s", "e">>
      [] value.kind = "function" -> value.source
      [] OTHER -> <<"undefined">>

(* value.map(item => String(item)).join(sep), lines 277 and 290 *)
JoinValues(items, sep) ==
    IF items = <<>> THEN <<>>
    ELSE IF Len(items) = 1 THEN JSToString(items[1])
    ELSE JSToString(items[1]) \o sep \o JoinValues(Tail(items), sep)

(* The rendering of a Date by a method of the runtime, kept symbolic: the   *)
(* method, the locale it is given and the instant.                          *)
DateRendering(method, instant, locale) ==
    <<method, "(", locale, ")@">> \o IntToString(instant.days) \o <<"d+">>
        \o NatToString(instant.ms)

(* value instanceof Date || (string && !isNaN(Date.parse(value))) ||        *)
(* typeof value === 'number'                                                *)
isDateLike(value) ==
    \/ value.kind = "date"
    \/ value.kind = "string" /\ DateParses(value.s)
    \/ value.kind = "number"

(* The instant of new Date(value) for a date-like value: the Date itself,   *)
(* the number as milliseconds after the epoch, or the start (UTC) of the    *)
(* year a four-digit string names                                           *)
DateInstant(value) ==
    CASE value.kind = "date" -> Instant(value.days, value.ms)
      [] value.kind = "number" -> Instant(value.n \div DayMs, value.n % DayMs)
      [] OTHER -> Instant(DaysToYear(ParseDigits(value.s, 1, 0)), 0)

(* The globals t and applyParams read: currentLocale, config.fallbackLocale *)
(* and config.debug, the bundles of the translations store, and the clock   *)
(* (new Date() of line 188)                                                 *)
Context(locale, fallback, store, debug, now) ==
    [locale |-> locale, fallback |-> fallback, store |-> store, debug |-> debug,
     now |-> now]

cRelativeTime == <<"r", "e", "l", "a", "t", "i", "v", "e", "T", "i", "m", "e">>
cJustNow == <<"j", "u", "s", "t", "N", "o", "w">>
cMinutesAgo == <<"m", "i", "n", "u", "t", "e", "s", "A", "g", "o">>
cHoursAgo == <<"h", "o", "u", "r", "s", "A", "g", "o">>
cDaysAgo == <<"d", "a", "y", "s", "A", "g", "o">>

(* Lines 189-193: the rounded seconds, minutes, hours and days from the     *)
(* date to now (Math.round is the floor of the value plus one half); the    *)
(* two instants are at most 32 days apart                                   *)
Elapsed(now, dateValue) ==
    LET diffSec == (now.days - dateValue.days) * 86400
                       + ((now.ms - dateValue.ms + 500) \div 1000)
        diffMin == (diffSec + 30) \div 60
        diffHour == (diffMin + 30) \div 60
        diffDay == (diffHour + 12) \div 24
    IN  [sec |-> diffSec, min |-> diffMin, hour |-> diffHour, day |-> diffDay]

(* The branch lines 195-200 take: none of the four when the date is 30 days *)
(* old or older, or in the future                                           *)
RelativeUnit(now, dateValue) ==
    IF now.days - dateValue.days > 31 \/ now.days - dateValue.days < -1
    THEN "none"
    ELSE LET diff == Elapsed(now, dateValue)
         IN  CASE diff.sec < 60 /\ diff.sec >= 0 -> "sec"
               [] diff.min < 60 /\ diff.min > 0 -> "min"
               [] diff.hour < 24 /\ diff.hour > 0 -> "hour"
               [] diff.day < 30 /\ diff.day > 0 -> "day"
               [] OTHER -> "none"

(* The key of the inner call of t for a unit, and the suffix of the text    *)
(* used when t returns the empty string                                     *)
RelativeKey(unit) ==
    cRelativeTime \o <<".">> \o
        (CASE unit = "sec" -> cJustNow
           [] unit = "min" -> cMinutesAgo
           [] unit = "hour" -> cHoursAgo
           [] OTHER -> cDaysAgo)

RelativeSuffix(unit) ==
    CASE unit = "min" -> <<"m", " ", "a", "g", "o">>
      [] unit = "hour" -> <<"h", " ", "a", "g", "o">>
      [] OTHER -> <<"d", " ", "a", "g", "o">>

RECURSIVE Translate(_, _, _, _)
RECURSIVE TranslateWarns(_, _, _, _)

(* The 'relative' case of lines 186-201 *)
FormatRelative(dateValue, ctx) ==
    LET unit == RelativeUnit(ctx.now, dateValue)
    IN  IF unit = "none"
        THEN DateRendering("toLocaleDateString", dateValue, ctx.locale)
        ELSE IF unit = "sec"
        THEN LET text == Translate(RelativeKey(unit), Undefined, Undefined, ctx)
             IN  IF text # <<>> THEN text
                 ELSE <<"j", "u", "s", "t", " ", "n", "o", "w">>
        ELSE LET n == Elapsed(ctx.now, dateValue)[unit]
                 text == Translate(RelativeKey(unit), JSObject(cCount :> JSNumber(n)),
                                   JSNumber(n), ctx)
             IN  IF text # <<>> THEN text
                 ELSE NatToString(n) \o RelativeSuffix(unit)

(* The date branch of the replacer, lines 175-219 *)
FormatDate(value, formatType, ctx) ==
    IF value.kind = "date" /\ ~value.valid
    THEN JSToString(value)
    ELSE LET dateValue == DateInstant(value)
         IN  CASE formatType = cDate ->
                    DateRendering("toLocaleDateString", dateValue, ctx.locale)
               [] formatType = cTime ->
                    DateRendering("toLocaleTimeString", dateValue, ctx.locale)
               [] formatType = cDatetime ->
                    DateRendering("toLocaleString", dateValue, ctx.locale)
               [] formatType = cRelative -> FormatRelative(dateValue, ctx)
               [] OTHER -> DateRendering("toLocaleString", dateValue, ctx.locale)

(* The date branch writes console.warn: in debug mode, for a Date that is   *)
(* invalid (line 215), and when the inner call of t does                    *)
FormatDateWarns(value, formatType, ctx) ==
    IF value.kind = "date" /\ ~value.valid
    THEN ctx.debug
    ELSE LET dateValue == DateInstant(value)
             unit == RelativeUnit(ctx.now, dateValue)
         IN  /\ formatType = cRelative
             /\ unit # "none"
             /\ IF unit = "sec"
                THEN TranslateWarns(RelativeKey(unit), Undefined, Undefined, ctx)
                ELSE LET n == Elapsed(ctx.now, dateValue)[unit]
                     IN  TranslateWarns(RelativeKey(unit),
                                        JSObject(cCount :> JSNumber(n)),
                                        JSNumber(n), ctx)

(* The parts of the expression between the braces: lines 159-161 *)
PlaceholderKey(expr) == Trim(Split(Trim(expr), ":")[1])
PlaceholderFormat(expr) ==
    LET parts == Split(Trim(expr), ":")
    IN  IF Len(parts) > 1 THEN Trim(parts[2]) ELSE <<>>

(* Variant: a number without a format type is converted with String *)
ReplacePlaceholder_StringNumbers(expr, params, ctx) ==
    LET key == PlaceholderKey(expr)
        formatType == PlaceholderFormat(expr)
        hasFormat == formatType # <<>>
    IN  IF HasOwnProperty(params, key)
        THEN LET value == params.m[key]
             IN  IF value.kind \in {"null", "undefined"} THEN <<>>
                 ELSE IF hasFormat /\ isDateLike(value)
                      THEN FormatDate(value, formatType, ctx)
                 ELSE IF value.kind = "array"
                      THEN IF hasFormat /\ formatType = cList
                           THEN <<"ListFormat(", ctx.locale, ")">>
                                    \o JoinValues(value.items, <<"|">>)
                           ELSE JoinValues(value.items, <<",", " ">>)
                 ELSE JSToString(value)
        ELSE IF ctx.debug
             THEN <<"[", "m", "i", "s", "s", "i", "n", "g", "_",
                    "p", "a", "r", "a", "m", ":">> \o key \o <<"]">>
             ELSE <<>>

(* The replacer callback of lines 158-304, for the expression between the   *)
(* braces of one placeholder.                                               *)
ReplacePlaceholder(expr, params, ctx) ==
    LET key == PlaceholderKey(expr)
        formatType == PlaceholderFormat(expr)
        hasFormat == formatType # <<>>
    IN  IF HasOwnProperty(params, key)
        THEN LET value == params.m[key]
             IN  IF value.kind \in {"null", "undefined"} THEN <<>>
                 ELSE IF hasFormat /\ isDateLike(value)
                      THEN FormatDate(value, formatType, ctx)
                 ELSE IF value.kind = "number"
                      THEN IF hasFormat
                           THEN NumberFormat(value.n, formatType, ctx.locale)
                           ELSE NumberToLocaleString(value.n, ctx.locale)
                 ELSE IF value.kind = "array"
                      THEN IF hasFormat /\ formatType = cList
                           THEN <<"ListFormat(", ctx.locale, ")">>
                                    \o JoinValues(value.items, <<"|">>)
                           ELSE JoinValues(value.items, <<",", " ">>)
                 ELSE JSToString(value)
        ELSE IF ctx.debug
             THEN <<"[", "m", "i", "s", "s", "i", "n", "g", "_",
                    "p", "a", "r", "a", "m", ":">> \o key \o <<"]">>
             ELSE <<>>

(* The replacer writes console.warn: lines 215 and 269, and the inner call  *)
(* of t of lines 195-198                                                    *)
ReplacePlaceholderWarns(expr, params, ctx) ==
    LET key == PlaceholderKey(expr)
        formatType == PlaceholderFormat(expr)
        hasFormat == formatType # <<>>
    IN  /\ HasOwnProperty(params, key)
        /\ LET value == params.m[key]
           IN  IF value.kind \in {"null", "undefined"} THEN FALSE
               ELSE IF hasFormat /\ isDateLike(value)
                    THEN FormatDateWarns(value, formatType, ctx)
               ELSE IF value.kind = "number"
                    THEN hasFormat /\ ctx.debug /\ NumberFormatThrows(formatType)
               ELSE FALSE

(* The index of the "}" closing a match of /{([^{}]+)}/ that opens at i,    *)
(* or 0 when there is no match at i.                                        *)
RECURSIVE MatchEnd(_, _, _)
MatchEnd(str, i, j) ==
    IF j > Len(str) \/ str[j] = "{" THEN 0
    ELSE IF str[j] = "}" THEN (IF j > i + 1 THEN j ELSE 0)
    ELSE MatchEnd(str, i, j + 1)

RECURSIVE ReplaceAll(_, _, _, _)
ReplaceAll(str, i, params, ctx) ==
    IF i > Len(str) THEN <<>>
    ELSE LET j == IF str[i] = "{" THEN MatchEnd(str, i, i + 1) ELSE 0
         IN  IF j # 0
             THEN ReplacePlaceholder(SubSeq(str, i + 1, j - 1), params, ctx)
                      \o ReplaceAll(str, j + 1, params, ctx)
             ELSE <<str[i]>> \o ReplaceAll(str, i + 1, params, ctx)

(* The replacer writes console.warn for one of the matches *)
RECURSIVE ReplaceAllWarns(_, _, _, _)
ReplaceAllWarns(str, i, params, ctx) ==
    IF i > Len(str) THEN FALSE
    ELSE LET j == IF str[i] = "{" THEN MatchEnd(str, i, i + 1) ELSE 0
         IN  IF j # 0
             THEN \/ ReplacePlaceholderWarns(SubSeq(str, i + 1, j - 1), params, ctx)
                  \/ ReplaceAllWarns(str, j + 1, params, ctx)
             ELSE ReplaceAllWarns(str, i + 1, params, ctx)

(* applyParams(str, params) *)
applyParams(str, params, ctx) ==
    IF params.kind \in {"undefined", "null"} THEN str
    ELSE ReplaceAll(str, 1, params, ctx)

applyParamsWarns(str, params, ctx) ==
    /\ params.kind \notin {"undefined", "null"}
    /\ ReplaceAllWarns(str, 1, params, ctx)

-----------------------------------------------------------------------------
(* Translate *)

(* { ...params, count } *)
SpreadWithCount(params, count) ==
    LET own == IF params.kind = "object" THEN DOMAIN params.m ELSE {}
    IN  JSObject([k \in own \cup {cCount} |->
                     IF k = cCount THEN count ELSE params.m[k]])

(* Variant: the key is not bracketed in debug mode *)
MissingKey_NoBrackets(key, debug) ==
    LET parts == Split(key, ".")
        lastPart == parts[Len(parts)]
    IN  IF lastPart # <<>> THEN lastPart ELSE key

(* Lines 495-513: the representation of a key that yields no template *)
MissingKey(key, debug) ==
    IF debug THEN <<"[">> \o key \o <<"]">>
    ELSE LET parts == Split(key, ".")
             lastPart == parts[Len(parts)]
         IN  IF lastPart # <<>> THEN lastPart ELSE key

(* Variant: a count of zero selects the zero form when there is one *)
SelectPluralForm_ZeroForm(translationValue, count) ==
    LET category == IF count = JSNumber(0) /\ HasOwnProperty(translationValue, cZero)
                    THEN cZero
                    ELSE IF count = JSNumber(1) THEN cOne ELSE cOther
        chosen == GetProperty(translationValue, category)
    IN  IF chosen.kind \in {"undefined", "null"}
        THEN GetProperty(translationValue, cOther)
        ELSE chosen

(* Lines 470-471: the plural form chosen for a count *)
SelectPluralForm(translationValue, count) ==
    LET chosen == GetProperty(translationValue,
                              IF count = JSNumber(1) THEN cOne ELSE cOther)
    IN  IF chosen.kind \in {"undefined", "null"}
        THEN GetProperty(translationValue, cOther)
        ELSE chosen

(* t(key, params, count) with the state it reads passed explicitly *)
Translate(key, params, count, ctx) ==
    LET translationValue ==
            findTranslationValue(key, ctx.locale, ctx.fallback, ctx.store)
    IN  IF translationValue.kind = "undefined" THEN MissingKey(key, ctx.debug)
        ELSE IF translationValue.kind \in {"object", "array"}
                /\ count.kind # "undefined"
             THEN LET pluralForm == SelectPluralForm(translationValue, count)
                  IN  IF pluralForm.kind = "string"
                      THEN applyParams(pluralForm.s,
                                       SpreadWithCount(params, count), ctx)
                      ELSE MissingKey(key, ctx.debug)
        ELSE IF translationValue.kind = "string"
             THEN applyParams(translationValue.s, params, ctx)
        ELSE MissingKey(key, ctx.debug)

(* The call writes console.warn.  Every write of t is guarded by            *)
(* config.debug: the fallback bundle was used (line 145), no plural form    *)
(* was found (line 479), the value is no template (line 490), the key is    *)
(* missing (line 498), or the replacer wrote                                *)
TranslateWarns(key, params, count, ctx) ==
    LET primary == getNestedValue(ctx.store[ctx.locale], key)
        translationValue ==
            findTranslationValue(key, ctx.locale, ctx.fallback, ctx.store)
    IN  /\ ctx.debug
        /\ \/ /\ primary.kind = "undefined" /\ ctx.locale # ctx.fallback
              /\ translationValue.kind # "undefined"
           \/ IF translationValue.kind = "undefined" THEN TRUE
              ELSE IF translationValue.kind \in {"object", "array"}
                      /\ count.kind # "undefined"
                   THEN LET pluralForm == SelectPluralForm(translationValue, count)
                        IN  IF pluralForm.kind = "string"
                            THEN applyParamsWarns(pluralForm.s,
                                                  SpreadWithCount(params, count), ctx)
                            ELSE TRUE
              ELSE IF translationValue.kind = "string"
                   THEN applyParamsWarns(translationValue.s, params, ctx)
              ELSE TRUE

-----------------------------------------------------------------------------
(* The translation files ./translations/<locale>.json the model runs on *)

kHi == <<"h", "i">>
kNs == <<"n", "s">>
kW == <<"w">>
kIt == <<"i", "t">>
kOo == <<"o", "o">>
kOn == <<"o", "n">>
kEs == <<"e", "s">>
kFr == <<"f", "r">>
kNf == <<"n", "f">>
kX == <<"x">>
kNu == <<"n", "u">>
kPc == <<"p", "c">>
kCu == <<"c", "u">>
kRe == <<"r", "e">>
cN == <<"n">>
cV == <<"v">>
cY == <<"y">>
cFew == <<"f", "e", "w">>

Path(a, b) == a \o <<".">> \o b

EnJson ==
    JSObject(
      (kHi :> JSString(<<"H", "i", " ", "{", "n", "}", "!">>))
   @@ (kNs :> JSObject(kW :> JSString(<<"W", " ", "{", " ", "n", " ", "}">>)))
   @@ (kIt :> JSObject(
                 (cZero :> JSString(<<"n", "o", " ", "i", "t">>))
              @@ (cOne :> JSString(<<"{", "c", "o", "u", "n", "t", "}", " ", "i", "t">>))
              @@ (cFew :> JSString(<<"f", "e", "w", " ", "i", "t">>))
              @@ (cOther :> JSString(<<"{", "c", "o", "u", "n", "t", "}", " ", "i", "t", "s">>))))
   @@ (kOo :> JSObject(cOther :> JSString(<<"{", "c", "o", "u", "n", "t", "}", " ", "o", "{", "n", "}">>)))
   @@ (kOn :> JSObject(cOne :> JSString(<<"1", " ", "o", "n">>)))
   @@ (cConstructor :> JSString(<<"C", " ", "{", "n", "}">>))
   @@ (kNu :> JSString(<<"=", "{", "v", ":", "i", "n", "t", "e", "g", "e", "r", "}">>))
   @@ (kPc :> JSString(<<"=", "{", "v", ":", "p", "e", "r", "c", "e", "n", "t", "}">>))
   @@ (kCu :> JSString(<<"=", "{", "v", ":", "c", "u", "r", "r", "e", "n", "c", "y", "}">>))
   @@ (kRe :> JSString(<<"{", "n", ":", "r", "e", "l", "a", "t", "i", "v", "e", "}",
                         "{", "y", ":", "d", "a", "t", "e", "}">>))
   @@ (cRelativeTime :> JSObject(
          cMinutesAgo :> JSObject(
                 (cOne :> JSString(<<"{", "c", "o", "u", "n", "t", "}", " ", "m", "i", "n">>))
              @@ (cOther :> JSString(<<"{", "c", "o", "u", "n", "t", "}", " ", "m", "i", "n", "s">>))))))

EsJson ==
    JSObject(
      (kHi :> JSString(<<"H", "o", " ", "{", "n", "}", "!">>))
   @@ (kNs :> JSObject(<<>>))
   @@ (kIt :> JSObject(
                 (cOne :> JSString(<<"{", "c", "o", "u", "n", "t", "}", " ", "e", "s">>))
              @@ (cOther :> JSString(<<"{", "c", "o", "u", "n", "t", "}", " ", "e", "s", "s">>))))
   @@ (kEs :> JSString(<<"S", "i", " ", "{", "n", "}">>))
   @@ (kNu :> JSString(<<"=", "{", "v", ":", "i", "n", "t", "e", "g", "e", "r", "}">>)))

FrJson ==
    JSObject(
      (kHi :> JSString(<<"Y", "o", " ", "{", "n", "}">>))
   @@ (kIt :> JSObject(cFew :> JSString(<<"p", "e", "u">>)))
   @@ (kOo :> JSObject(cOne :> JSString(<<"u", "n">>)))
   @@ (kOn :> JSArray(<<JSString(<<"a">>)>>))
   @@ (kFr :> JSString(<<"O", "u", "i">>)))

TranslationFile(locale) ==
    CASE locale = "en" -> EnJson
      [] locale = "es" -> EsJson
      [] OTHER -> FrJson

(* The default export of ./translations/<locale>.json, as the store holds   *)
(* it: by reference                                                         *)
JSModule(locale) == [kind |-> "module", file |-> locale]

(* The bundle a store entry holds *)
BundleOf(entry) ==
    IF entry.kind = "module" THEN TranslationFile(entry.file) ELSE Undefined

(* The translations object as the resolver reads it *)
BundleStore(store) == [l \in DOMAIN store |-> BundleOf(store[l])]

(* The globals in the current state, the clock reading now *)
Globals(now) ==
    Context(currentLocale, config.fallbackLocale, BundleStore(translations),
            config.debug, now)

t(key, params, count, now) == Translate(key, params, count, Globals(now))

(* The console channels the call writes to *)
tWrites(key, params, count, now) ==
    IF TranslateWarns(key, params, count, Globals(now)) THEN {"warn"} ELSE {}

(* The keys t is called with *)
Keys ==
    { kHi, Path(kNs, kW), kNs, kIt, Path(kIt, cOne), kOo, kOn, kEs, kFr,
      cConstructor, Path(kNf, kX), Path(kHi, kW), <<>>, <<"x", ".">>,
      kNu, kPc, kCu, kRe }

(* The counts t is called with: none, 0..MaxCount and one grouped number *)
MaxCount == 2
LargeCount == 1234
Counts == {Undefined} \cup {JSNumber(n) : n \in (0..MaxCount) \cup {LargeCount}}

(* The day new Date() falls on, counted from 1 January 1970 *)
Today == 20000

(* The readings of the clock: five seconds, a minute and a half, and ten   *)
(* days, after the Date of ParamsSet                                        *)
Clock ==
    {Instant(Today, LargeCount + 5000), Instant(Today, LargeCount + 90000),
     Instant(Today + 10, LargeCount)}

(* The params t is called with: none, {}, and objects with or without n,   *)
(* n a string, null, a number, an array (with an array in it), a Date, a    *)
(* boolean or a function, and y a string that names a year                  *)
ParamsSet ==
    { Undefined,
      JSObject(<<>>),
      JSObject(cN :> JSString(<<"A", "l">>)),
      JSObject(cN :> Null),
      JSObject((cN :> JSNumber(LargeCount)) @@ (cCount :> JSString(<<"z">>))
               @@ (cV :> JSNumber(LargeCount))
               @@ (cY :> JSString(<<"2", "0", "2", "3">>))),
      JSObject(cN :> JSArray(<<JSString(<<"a">>), JSNumber(LargeCount),
                               JSArray(<<Null, JSNumber(1)>>)>>)),
      JSObject(cN :> JSDate(Today, LargeCount)),
      JSObject(cN :> JSBoolean(TRUE)),
      JSObject(cN :> JSFunctionOf(<<"function f() { return 1; }">>)) }

-----------------------------------------------------------------------------
(* Locale controller: configuration, runtime and helpers *)

DefaultStorageKey == "app_locale"
StorageKeys == {DefaultStorageKey, "custom_locale"}

(* What localStorage.getItem can return: null, a locale, or another string *)
StoredValues == {"null", "es", "xx"}

(* navigator.language: undefined, or a language tag *)
NoNavigator == <<"u", "n", "d", "e", "f", "i", "n", "e", "d">>
Languages == {NoNavigator, <<"f", "r", "-", "F", "R">>, <<"d", "e">>}

(* The locale a string names, "other" when it names none *)
LocaleNamed(chars) ==
    CASE chars = <<"e", "n">> -> "en"
      [] chars = <<"e", "s">> -> "es"
      [] chars = <<"f", "r">> -> "fr"
      [] OTHER -> "other"

isValidLocale(locale) == locale \in Locales

(* The config constant of lines 58-63; dev is $app/environment's flag *)
DefaultConfig(dev) ==
    [persistLocale |-> TRUE, localStorageKey |-> DefaultStorageKey,
     fallbackLocale |-> BaseLocale, debug |-> dev]

getSavedLocale(cfg, runtime, store) ==
    IF cfg.persistLocale /\ runtime.window
    THEN LET saved == store[cfg.localStorageKey]
         IN  IF isValidLocale(saved) THEN saved ELSE cfg.fallbackLocale
    ELSE cfg.fallbackLocale

detectBrowserLocale(cfg, runtime) ==
    IF runtime.language = NoNavigator THEN cfg.fallbackLocale
    ELSE LET browserLang == LocaleNamed(Split(runtime.language, "-")[1])
         IN  IF isValidLocale(browserLang) THEN browserLang ELSE cfg.fallbackLocale

NoLoads == [l \in Locales |-> FALSE]

(* The runtimes the controller starts in: a browser or a server (no window, *)
(* no localStorage), a development or a production build.                   *)
Runtimes ==
    [dev : BOOLEAN, window : BOOLEAN, language : Languages]

Storages == [StorageKeys -> StoredValues]

NoCall == [key |-> <<>>, params |-> Undefined, count |-> Undefined,
           now |-> Instant(0, 0), result |-> <<>>, called |-> FALSE]

(* No bundle has been parsed with the schema *)
NotParsed == [data |-> Null, options |-> Null, issues |-> <<>>, parsed |-> FALSE]

(* The state after the module is evaluated, lines 58-82 *)
InitIn(runtimes, storages) ==
    /\ env \in runtimes
    /\ storage \in storages
    /\ config = DefaultConfig(env.dev)
    /\ translations = [l \in Locales |->
                          IF l = BaseLocale THEN JSModule(l) ELSE Undefined]
    /\ currentLocale = getSavedLocale(config, env, storage)
    /\ failedLocaleLoads = NoLoads
    /\ inflight = EmptyBag
    /\ last = [op |-> "load", locale |-> currentLocale, silent |-> FALSE,
               promise |-> "none", overlapped |-> FALSE]
    /\ console = {}
    /\ tcall = NoCall
    /\ history = <<>>
    /\ vcall = NotParsed

(* The controller is checked in the production build, in a browser whose   *)
(* navigator names fr and whose localStorage holds nothing or es under the  *)
(* default key.                                                             *)
BrowserRuntimes ==
    {r \in Runtimes :
        ~r.dev /\ r.window /\ LocaleNamed(Split(r.language, "-")[1]) = "fr"}
BrowserStorages ==
    {s \in Storages : s[DefaultStorageKey] # "xx" /\ s["custom_locale"] = "null"}

Init == InitIn(BrowserRuntimes, BrowserStorages)

-----------------------------------------------------------------------------
(* Locale controller: operations *)

(* The most setLocale calls suspended at their import at one time *)
MaxInFlight == 2

Absent == "absent"

(* configure(options), lines 313-321; an option not given is undefined     *)
(* (a boolean) or Absent (a string)                                         *)
ConfigureOptions ==
    [persistLocale : {JSBoolean(b) : b \in BOOLEAN} \cup {Undefined},
     localStorageKey : StorageKeys \cup {Absent},
     fallbackLocale : Locales \cup {Absent},
     debug : {JSBoolean(b) : b \in BOOLEAN} \cup {Undefined}]

Configured(cfg, options, dev) ==
    [persistLocale |-> IF options.persistLocale # Undefined
                       THEN options.persistLocale.b ELSE cfg.persistLocale,
     localStorageKey |-> IF options.localStorageKey # Absent
                         THEN options.localStorageKey ELSE cfg.localStorageKey,
     fallbackLocale |-> IF options.fallbackLocale # Absent
                        THEN options.fallbackLocale ELSE cfg.fallbackLocale,
     debug |-> IF options.debug # Undefined THEN options.debug.b ELSE dev]

Configure(options) ==
    /\ config' = Configured(config, options, env.dev)
    /\ last' = [op |-> "configure", locale |-> currentLocale, silent |-> FALSE,
                promise |-> "none", overlapped |-> FALSE]
    /\ console' = {}
    /\ UNCHANGED <<translations, currentLocale, failedLocaleLoads, inflight,
                   storage, env, tcall>>

(* Variant: a bundle already in the store is loaded again *)
StartsLoad_NoStoreCheck(newLocale) ==
    /\ ~failedLocaleLoads[newLocale]
    /\ newLocale # BaseLocale

(* Line 391: the call reaches `await import(...)` *)
StartsLoad(newLocale) ==
    /\ ~failedLocaleLoads[newLocale]
    /\ newLocale # BaseLocale
    /\ translations[newLocale].kind = "undefined"

(* History kept with each suspended call, for the properties that speak of *)
(* a call no other setLocale call overlaps: overlapped is set once another  *)
(* call of setLocale is made while this one is suspended, or if one was     *)
(* suspended when this one was made; since is set once another call of      *)
(* setLocale is made while this one is suspended; same is set if a call for *)
(* the same locale was suspended when this one was made.                    *)
MarkOverlapped(bag) ==
    LET marked == {[c EXCEPT !.overlapped = TRUE, !.since = TRUE] : c \in BagToSet(bag)}
    IN  [m \in marked |->
            CopiesIn(m, bag)
               + CopiesIn([m EXCEPT !.since = FALSE], bag)
               + CopiesIn([m EXCEPT !.overlapped = FALSE, !.since = FALSE], bag)]

(* The call of setLocale that suspends at its import, line 397 *)
Suspending(newLocale, silent) ==
    [locale |-> newLocale, silent |-> silent, overlapped |-> inflight # EmptyBag,
     since |-> FALSE,
     same |-> \E c \in BagToSet(inflight) : c.locale = newLocale]

(* Variant: the failed-load cache is not consulted *)
setLocaleRuns_NoFailedCheck(newLocale, silent) ==
    LET starts == newLocale # BaseLocale /\ translations[newLocale].kind = "undefined"
    IN  /\ starts => BagCardinality(inflight) < MaxInFlight
        /\ currentLocale' = newLocale
        /\ inflight' =
              IF starts
              THEN MarkOverlapped(inflight)
                      (+) SetToBag({Suspending(newLocale, silent)})
              ELSE MarkOverlapped(inflight)
        /\ UNCHANGED <<translations, failedLocaleLoads>>

(* Variant: the active locale is not set before the load *)
setLocaleRuns_NotOptimistic(newLocale, silent) ==
    /\ StartsLoad(newLocale) => BagCardinality(inflight) < MaxInFlight
    /\ currentLocale' =
          IF failedLocaleLoads[newLocale]
          THEN (IF currentLocale = newLocale THEN config.fallbackLocale
                ELSE currentLocale)
          ELSE IF StartsLoad(newLocale) THEN currentLocale
          ELSE newLocale
    /\ inflight' =
          IF StartsLoad(newLocale)
          THEN MarkOverlapped(inflight)
                  (+) SetToBag({Suspending(newLocale, silent)})
          ELSE MarkOverlapped(inflight)
    /\ UNCHANGED <<translations, failedLocaleLoads>>

(* setLocale up to its return or its await, lines 371-397 and 437-444: the  *)
(* state it writes                                                          *)
setLocaleRuns(newLocale, silent) ==
    /\ StartsLoad(newLocale) => BagCardinality(inflight) < MaxInFlight
    /\ currentLocale' =
          IF failedLocaleLoads[newLocale]
          THEN (IF currentLocale = newLocale THEN config.fallbackLocale
                ELSE currentLocale)
          ELSE newLocale
    /\ inflight' =
          IF StartsLoad(newLocale)
          THEN MarkOverlapped(inflight)
                  (+) SetToBag({Suspending(newLocale, silent)})
          ELSE MarkOverlapped(inflight)
    /\ UNCHANGED <<translations, failedLocaleLoads>>

(* ... and the console channels it writes to *)
setLocaleReports(newLocale, silent) ==
    IF failedLocaleLoads[newLocale] THEN (IF silent THEN {} ELSE {"warn"})
    ELSE IF config.debug THEN {"log"} ELSE {}

SetLocale(newLocale, silent) ==
    /\ setLocaleRuns(newLocale, silent)
    /\ last' = [op |-> "setLocale", locale |-> newLocale, silent |-> silent,
                promise |-> IF StartsLoad(newLocale) THEN "pending" ELSE "resolved",
                overlapped |-> inflight # EmptyBag]
    /\ console' = setLocaleReports(newLocale, silent)
    /\ UNCHANGED <<config, storage, env, tcall>>

(* Variant: the loaded module is not stored *)
LoadSucceeds_NotStored(call) ==
    /\ BagIn(call, inflight)
    /\ inflight' = inflight (-) SetToBag({call})
    /\ failedLocaleLoads' = [failedLocaleLoads EXCEPT ![call.locale] = FALSE]
    /\ last' = [op |-> "loaded", locale |-> call.locale, silent |-> call.silent,
                promise |-> "resolved", overlapped |-> call.overlapped]
    /\ console' = IF config.debug THEN {"log"} ELSE {}
    /\ UNCHANGED <<config, translations, currentLocale, storage, env, tcall>>

(* Variant: the loaded locale is made the active one *)
LoadSucceeds_Activates(call) ==
    /\ BagIn(call, inflight)
    /\ inflight' = inflight (-) SetToBag({call})
    /\ translations' = [translations EXCEPT ![call.locale] = JSModule(call.locale)]
    /\ failedLocaleLoads' = [failedLocaleLoads EXCEPT ![call.locale] = FALSE]
    /\ currentLocale' = call.locale
    /\ last' = [op |-> "loaded", locale |-> call.locale, silent |-> call.silent,
                promise |-> "resolved", overlapped |-> call.overlapped]
    /\ console' = IF config.debug THEN {"log"} ELSE {}
    /\ UNCHANGED <<config, storage, env, tcall>>

(* The import of a suspended call resolves: lines 398-414 *)
LoadSucceeds(call) ==
    /\ BagIn(call, inflight)
    /\ inflight' = inflight (-) SetToBag({call})
    /\ translations' = [translations EXCEPT ![call.locale] = JSModule(call.locale)]
    /\ failedLocaleLoads' = [failedLocaleLoads EXCEPT ![call.locale] = FALSE]
    /\ last' = [op |-> "loaded", locale |-> call.locale, silent |-> call.silent,
                promise |-> "resolved", overlapped |-> call.overlapped]
    /\ console' = IF config.debug THEN {"log"} ELSE {}
    /\ UNCHANGED <<config, currentLocale, storage, env, tcall>>

(* Variant: the active locale is not reverted *)
LoadFails_NoRevert(call) ==
    /\ BagIn(call, inflight)
    /\ inflight' = inflight (-) SetToBag({call})
    /\ failedLocaleLoads' = [failedLocaleLoads EXCEPT ![call.locale] = TRUE]
    /\ last' = [op |-> "loadFailed", locale |-> call.locale, silent |-> call.silent,
                promise |-> "resolved", overlapped |-> call.overlapped]
    /\ console' = IF call.silent THEN {} ELSE {"error"}
    /\ UNCHANGED <<config, translations, currentLocale, storage, env, tcall>>

(* Variant: no catch block, the rejection of the import leaves setLocale *)
LoadFails_Uncaught(call) ==
    /\ BagIn(call, inflight)
    /\ inflight' = inflight (-) SetToBag({call})
    /\ last' = [op |-> "loadFailed", locale |-> call.locale, silent |-> call.silent,
                promise |-> "rejected", overlapped |-> call.overlapped]
    /\ console' = {}
    /\ UNCHANGED <<config, translations, currentLocale, failedLocaleLoads,
                   storage, env, tcall>>

(* The import of a suspended call rejects: the catch block, lines 415-436 *)
LoadFails(call) ==
    /\ BagIn(call, inflight)
    /\ inflight' = inflight (-) SetToBag({call})
    /\ failedLocaleLoads' = [failedLocaleLoads EXCEPT ![call.locale] = TRUE]
    /\ currentLocale' = IF currentLocale = call.locale THEN config.fallbackLocale
                        ELSE currentLocale
    /\ last' = [op |-> "loadFailed", locale |-> call.locale, silent |-> call.silent,
                promise |-> "resolved", overlapped |-> call.overlapped]
    /\ console' = IF call.silent THEN {}
                  ELSE IF currentLocale = call.locale THEN {"error", "warn"}
                  ELSE {"error"}
    /\ UNCHANGED <<config, translations, storage, env, tcall>>

(* initLocale(options), lines 328-364; defaultLocale not given is Absent *)
InitLocaleOptions ==
    [preferBrowser : BOOLEAN, preferStorage : BOOLEAN,
     defaultLocale : {"es", Absent}]

NoLocale == "null"

DetectedLocale(options) ==
    LET saved == getSavedLocale(config, env, storage)
        fromStorage ==
            IF options.preferStorage /\ config.persistLocale
               /\ saved # config.fallbackLocale
            THEN saved ELSE NoLocale
        browserLocale == detectBrowserLocale(config, env)
    IN  IF fromStorage = NoLocale /\ options.preferBrowser
           /\ browserLocale # config.fallbackLocale
        THEN browserLocale
        ELSE fromStorage

InitLocaleTarget(options) ==
    IF DetectedLocale(options) # NoLocale THEN DetectedLocale(options)
    ELSE IF options.defaultLocale # Absent THEN options.defaultLocale
    ELSE config.fallbackLocale

(* Line 362 reads localStorage in its console.log argument, which throws a  *)
(* ReferenceError where there is none.                                      *)
InitLocaleThrows(options) ==
    /\ config.debug
    /\ DetectedLocale(options) # NoLocale
    /\ options.preferStorage
    /\ ~env.window

InitLocale(options) ==
    /\ setLocaleRuns(InitLocaleTarget(options), TRUE)
    /\ last' = [op |-> "initLocale", locale |-> InitLocaleTarget(options),
                silent |-> TRUE,
                promise |-> IF InitLocaleThrows(options) THEN "threw" ELSE "none",
                overlapped |-> inflight # EmptyBag]
    /\ console' = setLocaleReports(InitLocaleTarget(options), TRUE)
                     \cup (IF config.debug /\ ~InitLocaleThrows(options)
                           THEN {"log"} ELSE {})
    /\ UNCHANGED <<config, storage, env, tcall>>

(* The options the controller is reconfigured with while it switches        *)
(* locales: those setLocale reads (fallbackLocale, debug)                   *)
SwitchingOptions ==
    [persistLocale : {Undefined},
     localStorageKey : {Absent},
     fallbackLocale : Locales \cup {Absent},
     debug : {JSBoolean(b) : b \in BOOLEAN} \cup {Undefined}]

Next ==
    \/ \E options \in SwitchingOptions :
          Configure(options) /\ UNCHANGED <<history, vcall>>
    \/ \E options \in InitLocaleOptions :
          InitLocale(options) /\ UNCHANGED <<history, vcall>>
    \/ \E newLocale \in Locales, silent \in BOOLEAN :
          SetLocale(newLocale, silent) /\ UNCHANGED <<history, vcall>>
    \/ \E call \in BagToSet(inflight) :
          LoadSucceeds(call) /\ UNCHANGED <<history, vcall>>
    \/ \E call \in BagToSet(inflight) :
          LoadFails(call) /\ UNCHANGED <<history, vcall>>

Spec == Init /\ [][Next]_vars

-----------------------------------------------------------------------------
(* Overlapping calls of setLocale: the specification the properties of      *)
(* races are checked under.  The steps are those of Spec; each records      *)
(* itself in the history of the episode: the calls of setLocale and the     *)
(* completions of their loads, in order, from the call that found the       *)
(* controller idle on.  An episode longer than MaxHistory events is         *)
(* forgotten.                                                               *)
MaxHistory == 4

Forgotten == <<[ev |-> "forgotten", locale |-> BaseLocale]>>

Recorded(ev, locale) ==
    IF ev = "call" /\ inflight = EmptyBag THEN <<[ev |-> ev, locale |-> locale]>>
    ELSE IF history = Forgotten \/ Len(history) >= MaxHistory THEN Forgotten
    ELSE Append(history, [ev |-> ev, locale |-> locale])

(* The options the controller is reconfigured with between overlapping      *)
(* calls: the fallback locale a failed load reverts to                      *)
RevertOptions ==
    [persistLocale : {Undefined},
     localStorageKey : {Absent},
     fallbackLocale : Locales,
     debug : {Undefined}]

RaceNext ==
    \/ \E options \in RevertOptions :
          Configure(options) /\ UNCHANGED <<history, vcall>>
    \/ \E options \in InitLocaleOptions :
          InitLocale(options)
             /\ history' = Recorded("call", InitLocaleTarget(options))
             /\ UNCHANGED vcall
    \/ \E newLocale \in Locales, silent \in BOOLEAN :
          SetLocale(newLocale, silent) /\ history' = Recorded("call", newLocale)
             /\ UNCHANGED vcall
    \/ \E call \in BagToSet(inflight) :
          LoadSucceeds(call) /\ history' = Recorded("loaded", call.locale)
             /\ UNCHANGED vcall
    \/ \E call \in BagToSet(inflight) :
          LoadFails(call) /\ history' = Recorded("failed", call.locale)
             /\ UNCHANGED vcall

RaceSpec == Init /\ [][RaceNext]_vars

-----------------------------------------------------------------------------
(* Calls of t: the specification the properties of t are checked under.     *)
(* The controller is at rest in any of the states it can be in: any active  *)
(* locale, any fallback locale, es and fr loaded or not, debug on or off.   *)

LoadedStores ==
    {[l \in Locales |-> IF l = BaseLocale \/ l \in loaded THEN JSModule(l)
                        ELSE Undefined] : loaded \in SUBSET (Locales \ {BaseLocale})}

TInit ==
    /\ env = [dev |-> FALSE, window |-> TRUE, language |-> NoNavigator]
    /\ storage = [k \in StorageKeys |-> "null"]
    /\ \E fallback \in Locales, debug \in BOOLEAN :
          config = [DefaultConfig(env.dev) EXCEPT !.fallbackLocale = fallback,
                                                  !.debug = debug]
    /\ translations \in LoadedStores
    /\ currentLocale \in Locales
    /\ failedLocaleLoads = NoLoads
    /\ inflight = EmptyBag
    /\ last = [op |-> "load", locale |-> currentLocale, silent |-> FALSE,
               promise |-> "none", overlapped |-> FALSE]
    /\ console = {}
    /\ tcall = NoCall
    /\ history = <<>>
    /\ vcall = NotParsed

(* t is synchronous: a call runs to its return before the next one *)
TCall(key, params, count, now) ==
    /\ ~tcall.called
    /\ tcall' = [key |-> key, params |-> params, count |-> count, now |-> now,
                 result |-> t(key, params, count, now), called |-> TRUE]
    /\ console' = tWrites(key, params, count, now)
    /\ UNCHANGED <<config, translations, currentLocale, failedLocaleLoads, inflight,
                   storage, env, last, history, vcall>>

(* The caller has read the result *)
TReturn ==
    /\ tcall.called
    /\ tcall' = NoCall
    /\ UNCHANGED ctlvars

TNext ==
    \/ \E key \in Keys, params \in ParamsSet, count \in Counts, now \in Clock :
          TCall(key, params, count, now)
    \/ TReturn

TSpec == TInit /\ [][TNext]_vars

-----------------------------------------------------------------------------
(* Vocabulary of the properties *)

(* The value a bundle holds at a dot-path: the walk through the bundle's    *)
(* own entries, undefined when a segment is missing.                        *)
RECURSIVE EntryAt(_, _, _)
EntryAt(node, segments, i) ==
    IF i > Len(segments) THEN node
    ELSE IF node.kind = "object" /\ segments[i] \in DOMAIN node.m
         THEN EntryAt(node.m[segments[i]], segments, i + 1)
         ELSE Undefined

Entry(bundle, key) ==
    IF bundle.kind = "undefined" THEN Undefined
    ELSE EntryAt(bundle, Split(key, "."), 1)

ActiveBundle == BundleOf(translations[currentLocale])
FallbackBundle == BundleOf(translations[config.fallbackLocale])

(* The rendering of a template in the current state *)
Rendered(template, params) == applyParams(template, params, Globals(tcall.now))

sAl == <<"A", "l">>
ParamsAl == JSObject(cN :> JSString(sAl))

(* The value t resolves for the key of the last call *)
Resolved ==
    findTranslationValue(tcall.key, currentLocale, config.fallbackLocale,
                         BundleStore(translations))

AbsentFromBoth(key) ==
    /\ Entry(ActiveBundle, key).kind = "undefined"
    /\ Entry(FallbackBundle, key).kind = "undefined"

LastSegment(key) == Split(key, ".")[Len(Split(key, "."))]

Bracketed(key) == <<"[">> \o key \o <<"]">>

-----------------------------------------------------------------------------
(* Properties of t, checked under TSpec *)

(* C1: for every key the active locale's bundle holds a template for, t     *)
(* returns that template rendered with the params of the call, not the      *)
(* fallback locale's template and not a missing-key representation.         *)
C1_ActiveTemplate ==
    (tcall.called /\ Entry(ActiveBundle, tcall.key).kind = "string")
        => /\ tcall.result = Rendered(Entry(ActiveBundle, tcall.key).s, tcall.params)
           /\ (currentLocale = "es" /\ tcall.key = kHi /\ tcall.params = ParamsAl)
                 => tcall.result = <<"H", "o", " ", "A", "l", "!">>

C1_Witness ==
    /\ tcall.called
    /\ currentLocale = "es" /\ config.fallbackLocale = "en"
    /\ tcall.key = kHi /\ tcall.params = ParamsAl
    /\ Entry(FallbackBundle, kHi).kind = "string"
    /\ tcall.result = <<"H", "o", " ", "A", "l", "!">>

(* C2: for every key absent from the active locale's bundle and present     *)
(* with a template in the fallback locale's bundle (the two locales         *)
(* differing), t returns the fallback template rendered with the params.    *)
C2_FallbackTemplate ==
    (/\ tcall.called
     /\ currentLocale # config.fallbackLocale
     /\ Entry(ActiveBundle, tcall.key).kind = "undefined"
     /\ Entry(FallbackBundle, tcall.key).kind = "string")
        => tcall.result = Rendered(Entry(FallbackBundle, tcall.key).s, tcall.params)

(* C3, as stated: for every key absent from both bundles t returns a        *)
(* non-empty string, the bracketed key in debug mode and the last           *)
(* dot-separated segment of the key otherwise.                              *)
C3_MissingKeyLastSegment ==
    (tcall.called /\ AbsentFromBoth(tcall.key))
        => /\ tcall.result # <<>>
           /\ config.debug => tcall.result = Bracketed(tcall.key)
           /\ ~config.debug => tcall.result = LastSegment(tcall.key)

(* C3, amended: for every key absent from both bundles t returns the        *)
(* bracketed key in debug mode and otherwise the last dot-separated segment *)
(* of the key, or the whole key when that segment is empty; the result is   *)
(* non-empty whenever the key is.                                           *)
C3_MissingKeyRepresentation ==
    (tcall.called /\ AbsentFromBoth(tcall.key))
        => /\ tcall.key # <<>> => tcall.result # <<>>
           /\ config.debug => tcall.result = Bracketed(tcall.key)
           /\ ~config.debug =>
                 tcall.result = IF LastSegment(tcall.key) # <<>>
                                THEN LastSegment(tcall.key) ELSE tcall.key

C3_Witness ==
    /\ tcall.called
    /\ tcall.key = Path(kNf, kX)
    /\ AbsentFromBoth(tcall.key)
    /\ currentLocale # config.fallbackLocale
    /\ ~config.debug
    /\ tcall.result = kX

(* C9: for a plural object and a count, the template is the one entry when  *)
(* the count is 1 and the other entry for every other count; the other      *)
(* entry is used when the chosen one is absent; with no other entry either  *)
(* t returns the missing-key representation.  zero, few and many are never  *)
(* selected from the count.                                                 *)
C9_PluralSelection ==
    (tcall.called /\ tcall.count.kind = "number" /\ Resolved.kind = "object")
        => LET forms == Resolved.m
               params == SpreadWithCount(tcall.params, tcall.count)
           IN  tcall.result =
                  IF tcall.count.n = 1 /\ cOne \in DOMAIN forms
                  THEN Rendered(forms[cOne].s, params)
                  ELSE IF cOther \in DOMAIN forms
                  THEN Rendered(forms[cOther].s, params)
                  ELSE IF config.debug THEN Bracketed(tcall.key)
                  ELSE LastSegment(tcall.key)

C9_Witness ==
    /\ tcall.called
    /\ tcall.key = kIt /\ tcall.count = JSNumber(0) /\ tcall.params = Undefined
    /\ currentLocale = "en"
    /\ cZero \in DOMAIN Resolved.m
    /\ tcall.result = <<"0", " ", "i", "t", "s">>

(* C10: in non-debug mode every placeholder whose identifier has no entry   *)
(* in params is replaced by the empty string, and in debug mode by the      *)
(* marker [missing_param:<identifier>], when params lacks the entry and     *)
(* when t is called with no params at all: the rendering without params is  *)
(* the rendering with params that has no entry.                             *)
C10_MissingParamBlank ==
    (tcall.called /\ Resolved.kind = "string")
        => tcall.result =
              ReplaceAll(Resolved.s, 1,
                         IF tcall.params.kind = "undefined" THEN JSObject(<<>>)
                         ELSE tcall.params,
                         Globals(tcall.now))

-----------------------------------------------------------------------------
(* Properties of the locale controller, checked under Spec *)

(* The setLocale calls suspended at their import, history left out *)
Suspended(bag) ==
    [c \in [locale : Locales, silent : BOOLEAN] |->
        BagCardinality([r \in {x \in BagToSet(bag) :
                                  x.locale = c.locale /\ x.silent = c.silent}
                          |-> CopiesIn(r, bag)])]

(* The last step was a call of setLocale, directly or from initLocale *)
CalledSetLocale(op) == op.op \in {"setLocale", "initLocale"}

(* The key has a template in this locale's file and in no other *)
OnlyIn(locale, key) ==
    /\ Entry(TranslationFile(locale), key).kind = "string"
    /\ \A other \in Locales \ {locale} :
          Entry(TranslationFile(other), key).kind = "undefined"

(* C4: once the load of a setLocale(target) call that no other setLocale    *)
(* call overlaps has succeeded, the active locale is target, target's       *)
(* bundle is in the store and t of a key only target's bundle holds returns *)
(* target's template.                                                       *)
C4_SwitchSucceeded ==
    (last.op = "loaded" /\ ~last.overlapped)
        => /\ currentLocale = last.locale
           /\ BundleOf(translations[last.locale]) = TranslationFile(last.locale)
           /\ \A key \in Keys : OnlyIn(last.locale, key) =>
                 \A params \in ParamsSet :
                    t(key, params, Undefined, tcall.now)
                       = Rendered(Entry(TranslationFile(last.locale), key).s, params)

C4_Witness ==
    /\ last.op = "loaded" /\ ~last.overlapped /\ last.locale = "es"
    /\ OnlyIn("es", kEs)
    /\ t(kEs, ParamsAl, Undefined, tcall.now) = <<"S", "i", " ", "A", "l">>

(* C5: when the load of setLocale(target) fails, target's failure flag is   *)
(* set and the active locale becomes the fallback locale if it equals       *)
(* target at that moment and is left alone otherwise; after a failed call   *)
(* no other call overlaps, the active locale is the fallback locale.        *)
C5_SwitchFailed ==
    /\ [](last.op = "loadFailed" =>
            /\ failedLocaleLoads[last.locale]
            /\ ~last.overlapped => currentLocale = config.fallbackLocale)
    /\ [][last'.op = "loadFailed" =>
            currentLocale' = IF currentLocale = last'.locale
                             THEN config.fallbackLocale ELSE currentLocale]_vars

C5_Witness ==
    /\ last.op = "loadFailed" /\ ~last.overlapped /\ last.locale = "es"
    /\ failedLocaleLoads["es"]
    /\ config.fallbackLocale = "fr"
    /\ currentLocale = "fr"

(* C6: setLocale(target) with target in the failed-load set does not invoke *)
(* the loader and changes neither the store nor the failed-load set; the    *)
(* active locale becomes the fallback locale if it equals target and is     *)
(* left unchanged otherwise.                                                *)
C6_FailedTargetSkipped ==
    [][(CalledSetLocale(last') /\ failedLocaleLoads[last'.locale]) =>
          /\ Suspended(inflight') = Suspended(inflight)
          /\ translations' = translations
          /\ failedLocaleLoads' = failedLocaleLoads
          /\ last'.promise # "pending"
          /\ currentLocale' = IF currentLocale = last'.locale
                              THEN config.fallbackLocale ELSE currentLocale]_vars

C6_Witness ==
    /\ last.op = "setLocale" /\ last.locale = "es"
    /\ failedLocaleLoads["es"]
    /\ translations["es"].kind = "undefined"
    /\ currentLocale = "fr"
    /\ inflight = EmptyBag

(* C7: setLocale(target) with target's bundle in the store and target not   *)
(* in the failed-load set makes target the active locale and does not       *)
(* invoke the loader.                                                       *)
C7_LoadedTargetNotReloaded ==
    [][(/\ CalledSetLocale(last')
        /\ ~failedLocaleLoads[last'.locale]
        /\ translations[last'.locale].kind # "undefined") =>
          /\ currentLocale' = last'.locale
          /\ Suspended(inflight') = Suspended(inflight)
          /\ last'.promise # "pending"]_vars

C7_Witness ==
    /\ last.op = "setLocale" /\ last.locale = "es" /\ last.promise = "resolved"
    /\ translations["es"] = JSModule("es")
    /\ ~failedLocaleLoads["es"]
    /\ currentLocale = "es"
    /\ inflight = EmptyBag

(* C8: the promise of setLocale never rejects, whatever the target, the     *)
(* outcome of the load and silent; a failed load is reported on the console *)
(* when silent is false and not at all when it is true, and nothing else    *)
(* reports an error.                                                        *)
C8_NeverRejects ==
    /\ last.promise # "rejected"
    /\ last.op \in {"loaded", "loadFailed"} => last.promise = "resolved"
    /\ last.op = "loadFailed" =>
          IF last.silent THEN console = {} ELSE "error" \in console
    /\ "error" \in console => (last.op = "loadFailed" /\ ~last.silent)

C8_Witness ==
    /\ last.op = "loadFailed" /\ last.silent /\ last.promise = "resolved"
    /\ failedLocaleLoads[last.locale]
    /\ console = {}

-----------------------------------------------------------------------------
(* Properties of the interpolation pipeline, checked under TSpec *)

(* The format type of the one placeholder of the templates nu, pc and cu *)
FormatOf(key) ==
    CASE key = kNu -> cInteger
      [] key = kPc -> cPercent
      [] OTHER -> cCurrency

(* C11: for every numeric parameter value and every format type among       *)
(* integer, percent and currency, the placeholder is rendered by the        *)
(* number-formatting path (Intl.NumberFormat with zero fraction digits, the *)
(* percent style or the currency style) and never by the date path.         *)
C11_NumberFormats ==
    (/\ tcall.called
     /\ tcall.key \in {kNu, kPc, kCu}
     /\ Resolved.kind = "string"
     /\ tcall.params.kind = "object"
     /\ cV \in DOMAIN tcall.params.m
     /\ tcall.params.m[cV].kind = "number")
        => tcall.result =
              <<"=">> \o NumberFormat(tcall.params.m[cV].n, FormatOf(tcall.key),
                                      currentLocale)

-----------------------------------------------------------------------------
(* Properties of overlapping setLocale calls, checked under RaceSpec *)

Event(ev, locale) == [ev |-> ev, locale |-> locale]

(* The episode was two calls of setLocale, the second made before the load  *)
(* of the first resolved, and then the success of both loads.               *)
TwoLoadsSucceeded ==
    /\ Len(history) = 4
    /\ history[1].ev = "call" /\ history[2].ev = "call"
    /\ history[3].ev = "loaded" /\ history[4].ev = "loaded"

(* The target of the last call of setLocale in the episode *)
RECURSIVE LastCall(_, _)
LastCall(h, i) ==
    IF i = 0 THEN NoLocale
    ELSE IF h[i].ev = "call" THEN h[i].locale
    ELSE LastCall(h, i - 1)

LastRequested == LastCall(history, Len(history))

(* C12, as stated: after two overlapping setLocale calls whose loads both   *)
(* succeeded, the active locale is the target of the call whose load        *)
(* completed last.                                                          *)
C12_LastCompletedWins ==
    TwoLoadsSucceeded => currentLocale = history[4].locale

(* C12, amended: after two overlapping setLocale calls whose loads both     *)
(* succeeded, the active locale is the target that was requested last,      *)
(* whichever load completed last.                                           *)
C12_LastRequestedWins ==
    TwoLoadsSucceeded =>
        /\ inflight = EmptyBag
        /\ currentLocale = history[2].locale
        /\ translations[history[1].locale] = JSModule(history[1].locale)
        /\ translations[history[2].locale] = JSModule(history[2].locale)

C12_Witness ==
    /\ history = <<Event("call", "es"), Event("call", "fr"),
                   Event("loaded", "fr"), Event("loaded", "es")>>
    /\ last.op = "loaded" /\ last.locale = "es"
    /\ currentLocale = "fr"

(* C13: overlapping setLocale calls can race.  The state with no load in    *)
(* flight, the bundle of the last requested target in the store and an      *)
(* active locale that is not the last requested target is reachable         *)
(* (C13_Witness); it arises only through the failure of a load of the last  *)
(* requested target: a load that failed in the episode, or the failure flag *)
(* an earlier one left set.                                                 *)
C13_RaceOnlyThroughFailedLoad ==
    (/\ inflight = EmptyBag
     /\ history # <<>> /\ history # Forgotten
     /\ translations[LastRequested].kind # "undefined"
     /\ currentLocale # LastRequested)
        => \/ failedLocaleLoads[LastRequested]
           \/ \E i \in 1..Len(history) : history[i] = Event("failed", LastRequested)

C13_Witness ==
    /\ inflight = EmptyBag
    /\ history = <<Event("call", "fr"), Event("call", "fr"),
                   Event("failed", "fr"), Event("loaded", "fr")>>
    /\ LastRequested = "fr"
    /\ translations["fr"] = JSModule("fr")
    /\ currentLocale = "en"

-----------------------------------------------------------------------------
(* Properties of initLocale and configure, checked under Spec *)

(* The persisted locale: the valid locale localStorage holds under the      *)
(* configured key, NoLocale when it holds none or there is no localStorage  *)
PersistedLocale ==
    IF env.window /\ isValidLocale(storage[config.localStorageKey])
    THEN storage[config.localStorageKey] ELSE NoLocale

(* The browser locale: the supported locale navigator.language names *)
BrowserLocale ==
    IF env.language # NoNavigator
       /\ isValidLocale(LocaleNamed(Split(env.language, "-")[1]))
    THEN LocaleNamed(Split(env.language, "-")[1]) ELSE NoLocale

(* The target in strict priority order: persisted, browser, default *)
PriorityTarget(options) ==
    IF options.preferStorage /\ config.persistLocale /\ PersistedLocale # NoLocale
    THEN PersistedLocale
    ELSE IF options.preferBrowser /\ BrowserLocale # NoLocale
    THEN BrowserLocale
    ELSE IF options.defaultLocale # Absent THEN options.defaultLocale
    ELSE config.fallbackLocale

(* C14: initLocale calls setLocale once, with silent set and with the       *)
(* target chosen in strict priority order: the persisted locale when        *)
(* preferStorage and persistence are enabled and a valid persisted locale   *)
(* exists, otherwise the browser locale when preferBrowser is set and the   *)
(* browser language is a supported locale, otherwise defaultLocale.         *)
C14_InitPriority ==
    [][\A options \in InitLocaleOptions :
          InitLocale(options) =>
             /\ last'.silent
             /\ last'.locale = PriorityTarget(options)]_vars

(* C15: configure(options) overwrites exactly the fields options provides   *)
(* and leaves every other field of config (persistLocale, localStorageKey,  *)
(* fallbackLocale, debug) at its previous value, after any earlier calls of *)
(* configure; it leaves the active locale, the store and the failed-load    *)
(* set unchanged.                                                           *)
C15_ConfigureFrame ==
    [][\A options \in ConfigureOptions :
          Configure(options) =>
             /\ config'.persistLocale =
                   IF options.persistLocale # Undefined
                   THEN options.persistLocale.b ELSE config.persistLocale
             /\ config'.localStorageKey =
                   IF options.localStorageKey # Absent
                   THEN options.localStorageKey ELSE config.localStorageKey
             /\ config'.fallbackLocale =
                   IF options.fallbackLocale # Absent
                   THEN options.fallbackLocale ELSE config.fallbackLocale
             /\ config'.debug =
                   IF options.debug # Undefined
                   THEN options.debug.b ELSE config.debug
             /\ UNCHANGED <<currentLocale, translations, failedLocaleLoads>>]_vars

(* C16: with persistLocale enabled, the locale chosen through setLocale is  *)
(* stored in localStorage under localStorageKey, so that a later            *)
(* getSavedLocale returns it.                                               *)
C16_ChoicePersisted ==
    (/\ last.op = "setLocale"
     /\ config.persistLocale
     /\ currentLocale = last.locale)
        => /\ storage[config.localStorageKey] = last.locale
           /\ getSavedLocale(config, env, storage) = last.locale

-----------------------------------------------------------------------------
(* Schema validator: createI18nSchema and checkI18nNode, lines 598-729.     *)
(* The data is JSON: strings, numbers, booleans, null, arrays and objects.  *)
(* An object of the data carries its keys in the order Object.entries and   *)
(* Object.keys enumerate them in; a path is a sequence of segments, each a  *)
(* key or an array index.                                                   *)


(* The largest array index, 2^32 - 2 *)
MaxIndexKey == <<"4", "2", "9", "4", "9", "6", "7", "2", "9", "4">>

(* Of two strings of digits without leading zeros, the first names the      *)
(* smaller number                                                           *)
IndexBefore(a, b) ==
    \/ Len(a) < Len(b)
    \/ /\ Len(a) = Len(b)
       /\ \E i \in 1..Len(a) :
             /\ SubSeq(a, 1, i - 1) = SubSeq(b, 1, i - 1)
             /\ \E d, e \in 0..9 : Digit(d) = a[i] /\ Digit(e) = b[i] /\ d < e

(* The key is an integer index: the canonical text of an integer from 0 to  *)
(* 2^32 - 2                                                                 *)
IsIndexKey(key) ==
    /\ key # <<>>
    /\ \A i \in 1..Len(key) : IsDigit(key[i])
    /\ Len(key) = 1 \/ key[1] # "0"
    /\ key = MaxIndexKey \/ IndexBefore(key, MaxIndexKey)

(* Index keys in ascending order *)
RECURSIVE SortIndexKeys(_)
SortIndexKeys(keys) ==
    IF keys = <<>> THEN <<>>
    ELSE LET least == CHOOSE i \in 1..Len(keys) :
                          \A j \in 1..Len(keys) : ~IndexBefore(keys[j], keys[i])
         IN  <<keys[least]>>
                \o SortIndexKeys(SubSeq(keys, 1, least - 1)
                                   \o SubSeq(keys, least + 1, Len(keys)))

(* The order Object.keys, Object.entries and for-in enumerate the own keys  *)
(* of an object in: the integer indices in ascending order, then the other  *)
(* keys in the order they were written                                      *)
OwnKeys(written) ==
    SortIndexKeys(SelectSeq(written, IsIndexKey))
        \o SelectSeq(written, LAMBDA key : ~IsIndexKey(key))

(* An object literal with its keys as written and their values; keys holds  *)
(* them in the order they are enumerated in                                 *)
JSRecord(keys, values) ==
    [kind |-> "object",
     m |-> [k \in {keys[i] : i \in 1..Len(keys)} |->
               values[CHOOSE i \in 1..Len(keys) : keys[i] = k]],
     keys |-> OwnKeys(keys)]

(* typeof value *)
TypeOf(value) ==
    IF value.kind \in {"null", "array", "object", "date", "module"} THEN "object"
    ELSE value.kind

(* Lines 569-571: typeof value === 'object', and value is neither null nor  *)
(* an array; a Date is such a value                                         *)
isPlainObject(value) ==
    TypeOf(value) = "object" /\ value.kind # "null" /\ value.kind # "array"

(* Object.keys(value), and the keys of Object.entries(value): the own       *)
(* enumerable keys in enumeration order; a Date has none                    *)
ObjectKeys(value) == IF value.kind = "object" THEN value.keys ELSE <<>>

KeySegment(key) == [key |-> key, index |-> -1]
IndexSegment(index) == [key |-> <<>>, index |-> index]

(* The characters of the class [a-zA-Z0-9_] *)
WordChars ==
    {"a", "b", "c", "d", "e", "f", "g", "h", "i", "j", "k", "l", "m",
     "n", "o", "p", "q", "r", "s", "t", "u", "v", "w", "x", "y", "z",
     "A", "B", "C", "D", "E", "F", "G", "H", "I", "J", "K", "L", "M",
     "N", "O", "P", "Q", "R", "S", "T", "U", "V", "W", "X", "Y", "Z",
     "0", "1", "2", "3", "4", "5", "6", "7", "8", "9", "_"}

(* The end of the longest run of word characters that starts at i: the      *)
(* index of its last character, i - 1 when there is none                    *)
RECURSIVE WordEnd(_, _)
WordEnd(str, i) ==
    IF i <= Len(str) /\ str[i] \in WordChars THEN WordEnd(str, i + 1) ELSE i - 1

cDatePrefix == <<"{", "d", "a", "t", "e", ":">>

(* The index of the "}" closing a match of /{date:([a-zA-Z0-9_]+)}/ that    *)
(* opens at i, or 0 when there is no match at i                             *)
DateMatchEnd(str, i) ==
    LET from == i + Len(cDatePrefix)
        to == WordEnd(str, from)
    IN  IF /\ i + Len(cDatePrefix) - 1 <= Len(str)
           /\ SubSeq(str, i, i + Len(cDatePrefix) - 1) = cDatePrefix
           /\ to >= from
           /\ to + 1 <= Len(str)
           /\ str[to + 1] = "}"
        THEN to + 1 ELSE 0

(* Array.prototype.includes *)
Includes(list, x) == \E i \in 1..Len(list) : list[i] = x

(* String.prototype.endsWith *)
EndsWith(s, suffix) ==
    Len(s) >= Len(suffix) /\ SubSeq(s, Len(s) - Len(suffix) + 1, Len(s)) = suffix

cCountSuffix == <<"C", "o", "u", "n", "t">>
cTwo == <<"t", "w", "o">>
cMany == <<"m", "a", "n", "y">>

(* Lines 600-606: the options with their defaults; an option not given is   *)
(* Null                                                                     *)
resolvedOptions(options) ==
    [requiredPluralKeys |->
        IF options.requiredPluralKeys.kind = "null" THEN <<cOne, cOther>>
        ELSE options.requiredPluralKeys.items,
     optionalPluralKeys |->
        IF options.optionalPluralKeys.kind = "null" THEN <<cZero, cTwo, cFew, cMany>>
        ELSE options.optionalPluralKeys.items,
     allowedDateFormats |->
        IF options.allowedDateFormats.kind = "null" THEN <<cDate, cRelative>>
        ELSE options.allowedDateFormats.items,
     validateAllPlaceholdersSyntax |->
        IF options.validateAllPlaceholdersSyntax.kind = "null" THEN FALSE
        ELSE options.validateAllPlaceholdersSyntax.b,
     pluralKeyIdentifier |-> options.pluralKeyIdentifier]

(* Variant: only the required categories are allowed *)
allAllowedPluralKeys_RequiredOnly(resolved) ==
    {resolved.requiredPluralKeys[i] : i \in 1..Len(resolved.requiredPluralKeys)}

(* Lines 608-611 *)
allAllowedPluralKeys(resolved) ==
    {resolved.requiredPluralKeys[i] : i \in 1..Len(resolved.requiredPluralKeys)}
       \cup {resolved.optionalPluralKeys[i] : i \in 1..Len(resolved.optionalPluralKeys)}

(* Lines 645-650: the identifier is a list of key names, or the function    *)
(* key => key.endsWith('Count') of the example and of the tests             *)
isPluralKey(resolved, key) ==
    IF resolved.pluralKeyIdentifier.kind = "function"
    THEN EndsWith(key, cCountSuffix)
    ELSE Includes(resolved.pluralKeyIdentifier.items, key)

(* ctx.addIssue: the issue raised, with what its message names *)
Issue(code, path, names, found) ==
    [code |-> code, path |-> path, names |-> names, found |-> found]

(* Variant: the regular expression is not global, only the first            *)
(* placeholder is looked at                                                 *)
RECURSIVE DateIssues_FirstOnly(_, _, _, _)
DateIssues_FirstOnly(str, i, path, resolved) ==
    IF i > Len(str) THEN <<>>
    ELSE LET j == DateMatchEnd(str, i)
         IN  IF j = 0 THEN DateIssues_FirstOnly(str, i + 1, path, resolved)
             ELSE LET format == SubSeq(str, i + Len(cDatePrefix), j - 1)
                  IN  IF Includes(resolved.allowedDateFormats, format) THEN <<>>
                      ELSE <<Issue("date", path, <<format>>, "string")>>

(* Lines 617-630: the issues of the date placeholders of a string *)
RECURSIVE DateIssues(_, _, _, _)
DateIssues(str, i, path, resolved) ==
    IF i > Len(str) THEN <<>>
    ELSE LET j == DateMatchEnd(str, i)
         IN  IF j = 0 THEN DateIssues(str, i + 1, path, resolved)
             ELSE LET format == SubSeq(str, i + Len(cDatePrefix), j - 1)
                  IN  (IF Includes(resolved.allowedDateFormats, format) THEN <<>>
                       ELSE <<Issue("date", path, <<format>>, "string")>>)
                         \o DateIssues(str, j + 1, path, resolved)

(* Variant: the required categories are not looked for *)
MissingKeys_NotChecked(required, i, value) == <<>>

(* requiredPluralKeys.filter(k => !(k in value)) *)
RECURSIVE MissingKeys(_, _, _)
MissingKeys(required, i, value) ==
    IF i > Len(required) THEN <<>>
    ELSE (IF HasProperty(value, required[i]) THEN <<>> ELSE <<required[i]>>)
            \o MissingKeys(required, i + 1, value)

(* The index of the "}" closing a match of /{([a-zA-Z0-9_]+)}/ that opens   *)
(* at i, or 0 when there is no match at i                                   *)
PlaceholderMatchEnd(str, i) ==
    LET to == WordEnd(str, i + 1)
    IN  IF /\ str[i] = "{"
           /\ to >= i + 1
           /\ to + 1 <= Len(str)
           /\ str[to + 1] = "}"
        THEN to + 1 ELSE 0

(* Variant: the body of the loop raises an issue for each placeholder it    *)
(* matches                                                                  *)
RECURSIVE PlaceholderIssues_Flags(_, _, _, _)
PlaceholderIssues_Flags(str, i, path, resolved) ==
    IF ~resolved.validateAllPlaceholdersSyntax \/ i > Len(str) THEN <<>>
    ELSE LET j == PlaceholderMatchEnd(str, i)
         IN  IF j = 0 THEN PlaceholderIssues_Flags(str, i + 1, path, resolved)
             ELSE <<Issue("placeholder", path, <<SubSeq(str, i + 1, j - 1)>>, "string")>>
                     \o PlaceholderIssues_Flags(str, j + 1, path, resolved)

(* Lines 631-638: with validateAllPlaceholdersSyntax the string is scanned  *)
(* for the matches of placeholderRegex, from index i; the body of the loop  *)
(* is empty, a match adds no issue                                          *)
RECURSIVE PlaceholderIssues(_, _, _, _)
PlaceholderIssues(str, i, path, resolved) ==
    IF ~resolved.validateAllPlaceholdersSyntax \/ i > Len(str) THEN <<>>
    ELSE LET j == PlaceholderMatchEnd(str, i)
         IN  IF j = 0 THEN PlaceholderIssues(str, i + 1, path, resolved)
             ELSE <<>> \o PlaceholderIssues(str, j + 1, path, resolved)

(* Lines 614-719 *)
RECURSIVE checkI18nNode(_, _, _)
RECURSIVE CheckEntries(_, _, _, _)
RECURSIVE CheckPluralKeys(_, _, _, _)
RECURSIVE CheckElements(_, _, _, _)
checkI18nNode(node, path, resolved) ==
    IF node.kind = "string"
    THEN DateIssues(node.s, 1, path, resolved)
            \o PlaceholderIssues(node.s, 1, path, resolved)
    ELSE IF isPlainObject(node) THEN CheckEntries(node, 1, path, resolved)
    ELSE IF node.kind = "array" THEN CheckElements(node, 1, path, resolved)
    ELSE <<>>

(* The loop of line 643 over Object.entries(node), from its i-th entry *)
CheckEntries(node, i, path, resolved) ==
    IF i > Len(ObjectKeys(node)) THEN <<>>
    ELSE LET key == ObjectKeys(node)[i]
             value == node.m[key]
             currentPath == Append(path, KeySegment(key))
         IN  (IF isPluralKey(resolved, key)
              THEN IF ~isPlainObject(value)
                   THEN <<Issue("object", currentPath, <<key>>, TypeOf(value))>>
                   ELSE LET missingKeys ==
                               MissingKeys(resolved.requiredPluralKeys, 1, value)
                        IN  (IF Len(missingKeys) > 0
                             THEN <<Issue("missing", currentPath, missingKeys,
                                          "object")>>
                             ELSE <<>>)
                               \o CheckPluralKeys(value, 1, currentPath, resolved)
              ELSE checkI18nNode(value, currentPath, resolved))
                \o CheckEntries(node, i + 1, path, resolved)

(* Variant: the type of the value of a category is not checked *)
CheckPluralKeys_NoTypeCheck(value, i, currentPath, resolved) ==
    IF i > Len(ObjectKeys(value)) THEN <<>>
    ELSE LET pluralKey == ObjectKeys(value)[i]
             pluralValuePath == Append(currentPath, KeySegment(pluralKey))
         IN  (IF pluralKey \notin allAllowedPluralKeys(resolved)
              THEN <<Issue("category", pluralValuePath, <<pluralKey>>,
                           TypeOf(value.m[pluralKey]))>>
              ELSE checkI18nNode(value.m[pluralKey], pluralValuePath, resolved))
                \o CheckPluralKeys(value, i + 1, currentPath, resolved)

(* The loop of line 677 over the keys of a plural object, from the i-th *)
CheckPluralKeys(value, i, currentPath, resolved) ==
    IF i > Len(ObjectKeys(value)) THEN <<>>
    ELSE LET pluralKey == ObjectKeys(value)[i]
             pluralValuePath == Append(currentPath, KeySegment(pluralKey))
         IN  (IF pluralKey \notin allAllowedPluralKeys(resolved)
              THEN <<Issue("category", pluralValuePath, <<pluralKey>>,
                           TypeOf(value.m[pluralKey]))>>
              ELSE IF value.m[pluralKey].kind # "string"
              THEN <<Issue("string", pluralValuePath, <<pluralKey>>,
                           TypeOf(value.m[pluralKey]))>>
              ELSE checkI18nNode(value.m[pluralKey], pluralValuePath, resolved))
                \o CheckPluralKeys(value, i + 1, currentPath, resolved)

(* The forEach of line 715, from the element of index i - 1 *)
CheckElements(node, i, path, resolved) ==
    IF i > Len(node.items) THEN <<>>
    ELSE checkI18nNode(node.items[i], Append(path, IndexSegment(i - 1)), resolved)
            \o CheckElements(node, i + 1, path, resolved)

(* jsonValueSchema, lines 585-594: a string, a number, a boolean, null, an  *)
(* array of such values or an object of such values                         *)
RECURSIVE IsJsonValue(_)
IsJsonValue(value) ==
    \/ value.kind \in {"string", "number", "boolean", "null"}
    \/ /\ value.kind = "array"
       /\ \A i \in 1..Len(value.items) : IsJsonValue(value.items[i])
    \/ /\ value.kind = "object"
       /\ \A key \in DOMAIN value.m : IsJsonValue(value.m[key])

(* The issues of the entries of the root the union of jsonValueSchema       *)
(* refuses, from the i-th                                                   *)
RECURSIVE UnionIssues(_, _)
UnionIssues(data, i) ==
    IF i > Len(data.keys) THEN <<>>
    ELSE (IF IsJsonValue(data.m[data.keys[i]]) THEN <<>>
          ELSE <<Issue("invalid_union", <<KeySegment(data.keys[i])>>, <<>>,
                       data.m[data.keys[i]].kind)>>)
            \o UnionIssues(data, i + 1)

(* The issues of the base schema z.record(z.string(), jsonValueSchema) of   *)
(* line 724: the root is no object, or an entry of it is no JSON value      *)
BaseIssues(data) ==
    IF data.kind # "object" THEN <<Issue("invalid_type", <<>>, <<>>, data.kind)>>
    ELSE UnionIssues(data, 1)

(* The value the base schema of line 724 makes of a JSON value, which it   *)
(* hands to the superRefine and which schema.parse returns: a copy in which *)
(* every mapping has lost its entry named __proto__ (the record schema      *)
(* checks that entry and leaves it out of its result), the other entries    *)
(* in their order                                                           *)
RECURSIVE RecordOutput(_)
RecordOutput(value) ==
    IF value.kind = "array"
    THEN JSArray([i \in 1..Len(value.items) |-> RecordOutput(value.items[i])])
    ELSE IF value.kind = "object"
    THEN LET kept == SelectSeq(value.keys, LAMBDA key : key # cProto)
         IN  [kind |-> "object",
              m |-> [k \in {kept[i] : i \in 1..Len(kept)} |-> RecordOutput(value.m[k])],
              keys |-> kept]
    ELSE value

(* schema.safeParse(data): the issues of the base schema, and when it has   *)
(* none those the superRefine of lines 724-728 raises on its result         *)
Parse(data, options) ==
    IF BaseIssues(data) # <<>> THEN BaseIssues(data)
    ELSE checkI18nNode(RecordOutput(data), <<>>, resolvedOptions(options))

-----------------------------------------------------------------------------
(* The bundles and the options the schema is run on *)

kNCount == <<"n", "C", "o", "u", "n", "t">>
kKCount == <<"k", "C", "o", "u", "n", "t">>
kA == <<"a">>
kL == <<"l">>
kS == <<"s">>
kKey == <<"k", "e", "y">>
cXx == <<"x", "x">>
cZz == <<"z", "z">>

sPlain == JSString(<<"n">>)
sAllowed == JSString(<<"{", "d", "a", "t", "e", ":", "d", "a", "t", "e", "}">>)
sUnknown == JSString(<<"{", "d", "a", "t", "e", ":", "z", "z", "}">>)
(* "{date:zz} {date:date}{date:yy}{date:zz}" *)
sSeveral ==
    JSString(<<"{", "d", "a", "t", "e", ":", "z", "z", "}", " ",
               "{", "d", "a", "t", "e", ":", "d", "a", "t", "e", "}",
               "{", "d", "a", "t", "e", ":", "y", "y", "}",
               "{", "d", "a", "t", "e", ":", "z", "z", "}">>)

(* The strings of tests 070-072, and a well-formed placeholder *)
sInvalidChar ==
    JSString(<<"{", "i", "n", "v", "a", "l", "i", "d", "-", "c", "h", "a", "r", "}">>)
sUserName == JSString(<<"{", "u", "s", "e", "r", " ", "n", "a", "m", "e", "}">>)
sEmptyBraces == JSString(<<"{", "}">>)
sNamed == JSString(<<"{", "n", "a", "m", "e", "}", " ", "{", "x", "_", "1", "}">>)

(* "{count} n" *)
sCounted == JSString(<<"{", "c", "o", "u", "n", "t", "}", " ", "n">>)

(* An integer index as a key *)
kIndex == <<"2">>

(* A key with a dot in it: "a.nCount" *)
kDotted == <<"a", ".", "n", "C", "o", "u", "n", "t">>

(* { kCount: { one: 1, xx: "{date:zz}" } } *)
InnerPlural ==
    JSRecord(<<kKCount>>, <<JSRecord(<<cOne, cXx>>, <<JSNumber(1), sUnknown>>)>>)

NoEntry == [kind |-> "absent"]

(* The plural objects: each of the categories one, other, few and xx left   *)
(* out or given a value, in that order                                      *)
PluralEntries ==
    [one : {NoEntry, sPlain, sUnknown, JSNumber(1), Null, InnerPlural},
     other : {NoEntry, sPlain, sAllowed, JSBoolean(TRUE), JSArray(<<sUnknown>>)},
     few : {NoEntry, sPlain, JSNumber(1)},
     xx : {NoEntry, sUnknown, InnerPlural}]

PluralObject(entries) ==
    LET all == <<cOne, cOther, cFew, cXx>>
        valueOf == <<entries.one, entries.other, entries.few, entries.xx>>
        given == SelectSeq(<<1, 2, 3, 4>>, LAMBDA i : valueOf[i] # NoEntry)
    IN  JSRecord([i \in 1..Len(given) |-> all[given[i]]],
                 [i \in 1..Len(given) |-> valueOf[given[i]]])

(* The plural objects of the key nCount below a, and of the key a.nCount *)
NestedPlural == JSRecord(<<cOne, cOther>>, <<sPlain, sCounted>>)
DottedPlural == JSRecord(<<cOne, cOther>>, <<sAllowed, JSString(<<"d">>)>>)

(* The bundles: a plural key at the root, below a mapping, inside an array, *)
(* a plural key whose value is no mapping, strings with braces, a key with  *)
(* a dot in it, keys that are integer indices, entries named __proto__ (as  *)
(* JSON.parse makes them) at the root, below a mapping and in a plural      *)
(* object, and the data the base schema refuses: a root that is no object,  *)
(* a function and a Date among the values                                   *)
Bundles ==
    {JSRecord(<<kNCount>>, <<PluralObject(e)>>) : e \in PluralEntries}
  \cup
    {JSRecord(<<kA, kS>>, <<JSRecord(<<kNCount>>, <<PluralObject(e)>>), sSeveral>>) :
        e \in PluralEntries}
  \cup
    {JSRecord(<<kL>>,
              <<JSArray(<<sUnknown, JSRecord(<<kNCount>>, <<PluralObject(e)>>)>>)>>) :
        e \in PluralEntries}
  \cup
    {JSRecord(<<kA, kNCount>>, <<sAllowed, v>>) :
        v \in {sUnknown, JSNumber(1), Null, JSBoolean(TRUE), JSArray(<<InnerPlural>>)}}
  \cup
    {JSRecord(<<kKey>>, <<v>>) : v \in {sInvalidChar, sUserName, sEmptyBraces, sNamed}}
  \cup
    {JSRecord(<<kA>>, <<JSRecord(<<kNCount>>, <<NestedPlural>>)>>),
     JSRecord(<<kDotted>>, <<DottedPlural>>),
     JSRecord(<<kA, kDotted>>,
              <<JSRecord(<<kNCount>>, <<NestedPlural>>), DottedPlural>>)}
  \cup
    {JSRecord(<<kS, kIndex>>, <<sUnknown, sSeveral>>),
     JSRecord(<<kNCount>>,
              <<JSRecord(<<cOther, kIndex, cOne>>,
                         <<JSNumber(LargeCount), sPlain, JSNumber(MaxCount)>>)>>)}
  \cup
    {JSRecord(<<cProto, kS>>, <<sUnknown, sUnknown>>),
     JSRecord(<<kA>>, <<JSRecord(<<cProto>>, <<sUnknown>>)>>),
     JSRecord(<<cProto>>, <<JSRecord(<<kNCount>>, <<sPlain>>)>>),
     JSRecord(<<cProto>>, <<JSRecord(<<kNCount>>, <<NestedPlural>>)>>),
     JSRecord(<<cProto>>, <<JSRecord(<<kNCount>>, <<JSRecord(<<cOne>>, <<JSNumber(1)>>)>>)>>),
     JSRecord(<<kNCount>>,
              <<JSRecord(<<cProto, cOne, cOther>>, <<sPlain, sPlain, sPlain>>)>>),
     JSRecord(<<cProto>>, <<JSNumber(1)>>),
     JSRecord(<<kS, cProto>>, <<sPlain, JSFunction>>)}
  \cup
    {JSString(<<"n">>), Null, JSNumber(LargeCount),
     JSRecord(<<kS, kA>>, <<sUnknown, JSFunction>>),
     JSRecord(<<kS, kA>>, <<sPlain, JSArray(<<JSDate(Today, 0)>>)>>)}

(* The options createI18nSchema is called with; among the required         *)
(* categories, one that names a member of Object.prototype                  *)
SchemaOptions ==
    [pluralKeyIdentifier : {JSFunction, JSArray(<<kNCount>>)},
     requiredPluralKeys : {Null, JSArray(<<cOther>>)},
     optionalPluralKeys : {Null, JSArray(<<cZero>>)},
     allowedDateFormats : {Null, JSArray(<<cDate, cZz>>)},
     validateAllPlaceholdersSyntax : {Null}]
  \cup
    [pluralKeyIdentifier : {JSFunction, JSArray(<<kNCount>>), JSArray(<<>>)},
     requiredPluralKeys : {Null},
     optionalPluralKeys : {Null},
     allowedDateFormats : {Null},
     validateAllPlaceholdersSyntax : {JSBoolean(TRUE), JSBoolean(FALSE)}]
  \cup
    [pluralKeyIdentifier : {JSFunction},
     requiredPluralKeys : {JSArray(<<cConstructor, cOther>>)},
     optionalPluralKeys : {Null},
     allowedDateFormats : {Null},
     validateAllPlaceholdersSyntax : {Null}]

-----------------------------------------------------------------------------
(* Runs of the schema: the specification the properties of the validator    *)
(* are checked under.  The validator reads nothing of the controller.       *)

(* The state after the file of the schema is evaluated: its example         *)
(* statements (lines 779-793) have parsed the example bundle, which has no  *)
(* issue, and have written "Validation successful!" with console.log        *)
VInit ==
    /\ env = [dev |-> FALSE, window |-> TRUE, language |-> NoNavigator]
    /\ storage = [k \in StorageKeys |-> "null"]
    /\ config = DefaultConfig(env.dev)
    /\ translations = [l \in Locales |->
                          IF l = BaseLocale THEN JSModule(l) ELSE Undefined]
    /\ currentLocale = BaseLocale
    /\ failedLocaleLoads = NoLoads
    /\ inflight = EmptyBag
    /\ last = [op |-> "load", locale |-> currentLocale, silent |-> FALSE,
               promise |-> "none", overlapped |-> FALSE]
    /\ console = {"log"}
    /\ tcall = NoCall
    /\ history = <<>>
    /\ vcall = NotParsed

(* createI18nSchema(options).safeParse(data); it writes nothing on the      *)
(* console                                                                  *)
VParse(data, options) ==
    /\ ~vcall.parsed
    /\ vcall' = [data |-> data, options |-> options,
                 issues |-> Parse(data, options), parsed |-> TRUE]
    /\ console' = {}
    /\ UNCHANGED <<config, translations, currentLocale, failedLocaleLoads, inflight,
                   storage, env, last, tcall, history>>

(* The keys, the params and the counts t is called with on a parsed bundle *)
VKeys == {kNCount, Path(kA, kNCount), Path(cProto, kNCount)}
VParams == {Undefined, JSObject(cN :> JSString(<<"A", "l">>))}

(* schema.parse(data) has returned the bundle the base schema makes of the  *)
(* data (it throws when there is an issue), and t is called with that       *)
(* bundle as the one of the active locale                                   *)
VGlobals(now) ==
    Context(currentLocale, config.fallbackLocale,
            [l \in Locales |-> IF l = currentLocale THEN RecordOutput(vcall.data)
                               ELSE BundleOf(translations[l])],
            config.debug, now)

VTranslate(key, params, count, now) ==
    /\ vcall.parsed
    /\ vcall.issues = <<>>
    /\ ~tcall.called
    /\ tcall' = [key |-> key, params |-> params, count |-> count, now |-> now,
                 result |-> Translate(key, params, count, VGlobals(now)),
                 called |-> TRUE]
    /\ console' = IF TranslateWarns(key, params, count, VGlobals(now))
                  THEN {"warn"} ELSE {}
    /\ UNCHANGED <<config, translations, currentLocale, failedLocaleLoads, inflight,
                   storage, env, last, history, vcall>>

(* The caller has read the issues, and the result of t *)
VReturn ==
    /\ vcall.parsed
    /\ vcall' = NotParsed
    /\ tcall' = NoCall
    /\ UNCHANGED <<config, translations, currentLocale, failedLocaleLoads, inflight,
                   storage, env, last, console, history>>

VNext ==
    \/ \E data \in Bundles, options \in SchemaOptions : VParse(data, options)
    \/ \E key \in VKeys, params \in VParams, count \in Counts :
          VTranslate(key, params, count, Instant(Today, 0))
    \/ VReturn

VSpec == VInit /\ [][VNext]_vars

-----------------------------------------------------------------------------
(* Vocabulary of the properties of the validator *)

(* The options of the last run, with their defaults *)
RunOptions == resolvedOptions(vcall.options)

(* The key is matched by the plural-identification rule of the last run *)
PluralKey(key) == isPluralKey(RunOptions, key)

(* The category is among the required and the optional ones *)
AllowedCategory(key) ==
    \/ Includes(RunOptions.requiredPluralKeys, key)
    \/ Includes(RunOptions.optionalPluralKeys, key)

(* The nodes of a tree below a node, the node left out: for each its path,  *)
(* its value, the key it is the value of (isKey false for an array          *)
(* element), whether it is an entry of the mapping of a plural-identified   *)
(* key (entry), the number of plural-identified keys on the path above it   *)
(* (above), and whether it lies inside the value of an entry of a plural    *)
(* mapping whose key is no category, or inside the value of a               *)
(* plural-identified key that is no mapping (unexamined), and whether it    *)
(* is the value of an entry named __proto__ or lies inside one (dropped).   *)
RECURSIVE NodesBelow(_, _, _, _, _, _)
NodesBelow(node, path, above, plural, unexamined, dropped) ==
    IF node.kind = "object"
    THEN UNION {
           {[path |-> Append(path, KeySegment(k)), value |-> node.m[k],
             isKey |-> TRUE, key |-> k, entry |-> plural, above |-> above,
             unexamined |-> unexamined, dropped |-> dropped \/ k = cProto]}
             \cup NodesBelow(node.m[k], Append(path, KeySegment(k)),
                             IF ~plural /\ PluralKey(k) THEN above + 1 ELSE above,
                             ~plural /\ PluralKey(k),
                             \/ unexamined
                             \/ plural /\ ~AllowedCategory(k)
                             \/ ~plural /\ PluralKey(k) /\ node.m[k].kind # "object",
                             dropped \/ k = cProto)
           : k \in DOMAIN node.m }
    ELSE IF node.kind = "array"
    THEN UNION {
           {[path |-> Append(path, IndexSegment(i - 1)), value |-> node.items[i],
             isKey |-> FALSE, key |-> <<>>, entry |-> FALSE, above |-> above,
             unexamined |-> unexamined, dropped |-> dropped]}
             \cup NodesBelow(node.items[i], Append(path, IndexSegment(i - 1)),
                             above, FALSE, unexamined, dropped)
           : i \in 1..Len(node.items) }
    ELSE {}

(* The nodes of the bundle of the last run *)
AllNodes == NodesBelow(vcall.data, <<>>, 0, FALSE, FALSE, FALSE)

(* The plural-identified keys, and the entries of their mappings *)
PluralKeyNodes == {n \in AllNodes : n.isKey /\ ~n.entry /\ PluralKey(n.key)}
PluralEntryNodes == {n \in AllNodes : n.entry}

(* The node does not lie inside the value of another plural-identified key *)
Outermost(n) == n.above = (IF n.entry THEN 1 ELSE 0)

(* The issues of the last run with this code and this path *)
IssuesAt(code, path) ==
    SelectSeq(vcall.issues, LAMBDA issue : issue.code = code /\ issue.path = path)

IsPrefix(p, q) == Len(p) <= Len(q) /\ SubSeq(q, 1, Len(p)) = p

(* The issues of the last run at this path or below it *)
IssuesWithin(path) ==
    SelectSeq(vcall.issues, LAMBDA issue : IsPrefix(path, issue.path))

(* The required categories the mapping does not have, in the order of the   *)
(* option                                                                   *)
MissingCategories(value) ==
    SelectSeq(RunOptions.requiredPluralKeys, LAMBDA k : k \notin DOMAIN value.m)

(* The tokens of the {date:token} occurrences of a string, in order *)
RECURSIVE DateTokens(_, _)
DateTokens(str, i) ==
    IF i > Len(str) THEN <<>>
    ELSE IF DateMatchEnd(str, i) = 0 THEN DateTokens(str, i + 1)
    ELSE <<SubSeq(str, i + Len(cDatePrefix), DateMatchEnd(str, i) - 1)>>
            \o DateTokens(str, DateMatchEnd(str, i) + 1)

(* Those of the tokens that are not allowed date formats *)
UnknownTokens(str) ==
    SelectSeq(DateTokens(str, 1),
              LAMBDA token : ~Includes(RunOptions.allowedDateFormats, token))

(* The names the issues carry, in order *)
NamesOf(issues) == [i \in 1..Len(issues) |-> issues[i].names[1]]

StringLeaves == {n \in AllNodes : n.value.kind = "string"}

(* The string is one the walk of the validator comes to: it is not the      *)
(* value of a plural-identified key, inside a plural object it is the value *)
(* of a required or optional category, and it lies in no value the walk     *)
(* leaves unexamined                                                        *)
ExaminedLeaf(n) ==
    IF n.entry THEN n.above = 1 /\ AllowedCategory(n.key)
    ELSE n.above = 0 /\ ~(n.isKey /\ PluralKey(n.key))

(* The data of the last run is a bundle: a tree of JSON values whose root   *)
(* is a mapping                                                             *)
IsBundle == vcall.data.kind = "object" /\ IsJsonValue(vcall.data)

-----------------------------------------------------------------------------
(* Properties of the validator, checked under VSpec *)

(* C17, for the plural-identified keys the walk of the validator comes to   *)
(* (those that lie neither inside the value of another plural-identified    *)
(* key nor at or below an entry named __proto__) and whose value is a       *)
(* mapping: no missing-required-categories issue is raised when every       *)
(* required category is present, and exactly one, at the key's path and     *)
(* naming all the missing categories, when one is absent.  It fails for a   *)
(* required category that names a member of Object.prototype: line 666      *)
(* looks for it with `in` and finds the inherited member.                   *)
C17_MissingCategories ==
    (vcall.parsed /\ IsBundle) =>
       \A n \in PluralKeyNodes :
          (Outermost(n) /\ ~n.dropped /\ n.value.kind = "object") =>
             IF MissingCategories(n.value) = <<>>
             THEN IssuesAt("missing", n.path) = <<>>
             ELSE /\ Len(IssuesAt("missing", n.path)) = 1
                  /\ IssuesAt("missing", n.path)[1].names = MissingCategories(n.value)

(* C18, as stated: for every plural-identified mapping, each entry whose    *)
(* category is required or optional and whose value is not a string yields  *)
(* exactly one must-be-a-string issue, whose path is the path of the plural *)
(* key followed by the category, at any nesting depth.                      *)
C18_NonStringEverywhere ==
    (vcall.parsed /\ IsBundle) =>
       \A n \in PluralEntryNodes :
          (AllowedCategory(n.key) /\ n.value.kind # "string")
             => Len(IssuesAt("string", n.path)) = 1

(* C18, amended: the same for every plural-identified mapping that lies     *)
(* neither inside the value of another plural-identified key nor at or      *)
(* below an entry named __proto__; the issue names the category and the     *)
(* typeof of the value, and the other entries raise no such issue.          *)
C18_NonString ==
    (vcall.parsed /\ IsBundle) =>
       \A n \in PluralEntryNodes :
          IF /\ Outermost(n) /\ ~n.dropped
             /\ AllowedCategory(n.key) /\ n.value.kind # "string"
          THEN IssuesAt("string", n.path)
                  = <<Issue("string", n.path, <<n.key>>, TypeOf(n.value))>>
          ELSE IssuesAt("string", n.path) = <<>>

C18_Witness ==
    /\ vcall.parsed
    /\ \E n \in PluralEntryNodes :
          /\ Len(n.path) = 4 /\ n.path[2] = IndexSegment(1)
          /\ n.key = cOne /\ n.value = Null
          /\ IssuesAt("string", n.path) = <<Issue("string", n.path, <<cOne>>, "object")>>

(* C19, as stated: for every plural-identified mapping, each entry whose    *)
(* key is neither required nor optional yields exactly one                  *)
(* invalid-plural-category issue, whose path is the path of the plural key  *)
(* followed by that key, and no further issue for the entry's value; a      *)
(* plural-identified key whose value is not a mapping yields exactly one    *)
(* must-be-an-object issue at the key's path and its value is not examined  *)
(* further.  (The keys and entries inside a value the statement itself      *)
(* leaves unexamined are not counted.)                                      *)
C19_InvalidCategoryEverywhere ==
    (vcall.parsed /\ IsBundle) =>
       /\ \A n \in PluralEntryNodes : (~n.unexamined /\ ~AllowedCategory(n.key)) =>
             /\ Len(IssuesAt("category", n.path)) = 1
             /\ Len(IssuesWithin(n.path)) = 1
       /\ \A n \in PluralKeyNodes : (~n.unexamined /\ n.value.kind # "object") =>
             /\ Len(IssuesAt("object", n.path)) = 1
             /\ Len(IssuesWithin(n.path)) = 1

(* C19, amended: the same for the plural-identified keys and mappings that  *)
(* lie neither inside the value of another plural-identified key nor at or  *)
(* below an entry named __proto__, and for the entries of these mappings    *)
(* not named __proto__; nothing inside such a value or entry raises an      *)
(* issue, and an entry whose key is required or optional raises no          *)
(* invalid-plural-category issue.                                           *)
C19_InvalidCategory ==
    (vcall.parsed /\ IsBundle) =>
       /\ \A n \in PluralEntryNodes :
             IF Outermost(n) /\ ~n.dropped /\ ~AllowedCategory(n.key)
             THEN /\ IssuesWithin(n.path)
                        = <<Issue("category", n.path, <<n.key>>, TypeOf(n.value))>>
             ELSE IssuesAt("category", n.path) = <<>>
       /\ \A n \in PluralKeyNodes :
             IF Outermost(n) /\ ~n.dropped /\ n.value.kind # "object"
             THEN IssuesWithin(n.path)
                     = <<Issue("object", n.path, <<n.key>>, TypeOf(n.value))>>
             ELSE IssuesAt("object", n.path) = <<>>

C19_Witness ==
    /\ vcall.parsed
    /\ vcall.options.optionalPluralKeys = JSArray(<<cZero>>)
    /\ \E n \in PluralEntryNodes :
          /\ Outermost(n) /\ n.key = cFew /\ n.value = sPlain
          /\ IssuesWithin(n.path) = <<Issue("category", n.path, <<cFew>>, "string")>>
    /\ \E n \in PluralEntryNodes :
          /\ Outermost(n) /\ n.key = cXx /\ n.value = sUnknown
          /\ IssuesWithin(n.path) = <<Issue("category", n.path, <<cXx>>, "string")>>

(* C20, as stated: for every string leaf of the bundle (directly under a    *)
(* mapping, inside a plural object or inside an array), each occurrence of  *)
(* {date:token} whose token is not an allowed date format raises exactly    *)
(* one issue at the leaf's path (array indices included) carrying the       *)
(* token, and the occurrences whose token is allowed raise none.            *)
C20_DateTokensEverywhere ==
    (vcall.parsed /\ IsBundle) =>
       \A n \in StringLeaves :
          NamesOf(IssuesAt("date", n.path)) = UnknownTokens(n.value.s)

(* C20, amended: the same for every string leaf the walk comes to: one that *)
(* is not the value of a plural-identified key, that inside a plural object *)
(* is the value of a required or optional category, and that lies neither   *)
(* at nor below an entry named __proto__; the other strings raise no issue. *)
C20_DateTokens ==
    (vcall.parsed /\ IsBundle) =>
       \A n \in StringLeaves :
          NamesOf(IssuesAt("date", n.path))
             = IF ExaminedLeaf(n) /\ ~n.dropped THEN UnknownTokens(n.value.s)
               ELSE <<>>

C20_Witness ==
    /\ vcall.parsed
    /\ vcall.options.allowedDateFormats = Null
    /\ \E n \in StringLeaves :
          /\ n.path = <<KeySegment(kL), IndexSegment(0)>>
          /\ NamesOf(IssuesAt("date", n.path)) = <<cZz>>
    /\ \E n \in StringLeaves :
          /\ n.entry /\ n.key = cOne /\ n.value = sUnknown
          /\ NamesOf(IssuesAt("date", n.path)) = <<cZz>>

-----------------------------------------------------------------------------
(* The issues of the bundle of the last run under the options of the last   *)
(* run with general placeholder-syntax validation set to flag               *)
IssuesWithSyntaxFlag(flag) ==
    Parse(vcall.data, [vcall.options EXCEPT !.validateAllPlaceholdersSyntax = flag])

(* C21: enabling general placeholder-syntax validation never changes the    *)
(* result of the validator: for every bundle the issues with the flag on    *)
(* are the issues with the flag off (false, or not given), and they are the *)
(* issues of the run; the malformed placeholders {invalid-char},            *)
(* {user name} and {} are not flagged.                                      *)
C21_SyntaxFlagNoEffect ==
    vcall.parsed =>
       /\ IssuesWithSyntaxFlag(JSBoolean(TRUE)) = IssuesWithSyntaxFlag(JSBoolean(FALSE))
       /\ IssuesWithSyntaxFlag(JSBoolean(TRUE)) = IssuesWithSyntaxFlag(Null)
       /\ vcall.issues = IssuesWithSyntaxFlag(JSBoolean(TRUE))
       /\ (/\ vcall.data.kind = "object"
           /\ vcall.data.keys = <<kKey>>
           /\ vcall.data.m[kKey] \in {sInvalidChar, sUserName, sEmptyBraces})
             => vcall.issues = <<>>

C21_Witness ==
    /\ vcall.parsed
    /\ vcall.options.validateAllPlaceholdersSyntax = JSBoolean(TRUE)
    /\ vcall.data = JSRecord(<<kKey>>, <<sInvalidChar>>)
    /\ vcall.issues = <<>>

-----------------------------------------------------------------------------
(* The locales whose bundle the store holds *)
Loaded(store) == {l \in Locales : store[l].kind = "module"}

(* C22: in every reachable state the bundle store holds the bundle of the   *)
(* currently configured fallback locale, and no step removes an entry of    *)
(* the bundle store.                                                        *)
C22_FallbackBundlePresent ==
    /\ [](config.fallbackLocale \in Loaded(translations))
    /\ [][Loaded(translations) \subseteq Loaded(translations')]_vars

-----------------------------------------------------------------------------
(* The calls of setLocale whose load is in flight and since which no other  *)
(* call of setLocale has been made                                          *)
LatestInFlight == {c \in BagToSet(inflight) : ~c.since}

(* C23, as stated: in every state in which the load of a setLocale(target)  *)
(* call is still in flight and no other call of setLocale has been made     *)
(* since, the active locale is target and target's bundle is not in the     *)
(* store.                                                                   *)
C23_OptimisticWhileLoading ==
    \A c \in LatestInFlight :
       /\ currentLocale = c.locale
       /\ c.locale \notin Loaded(translations)

(* C23, amended: the same for a call made while no load of the same target  *)
(* was in flight.                                                           *)
C23_OptimisticWithoutTwin ==
    \A c \in LatestInFlight :
       ~c.same => /\ currentLocale = c.locale
                  /\ c.locale \notin Loaded(translations)

C23_Witness ==
    \E c \in LatestInFlight :
       /\ ~c.same /\ c.overlapped
       /\ last.op = "loadFailed" /\ last.locale # c.locale
       /\ currentLocale = c.locale
       /\ c.locale \notin Loaded(translations)
       /\ c.locale # config.fallbackLocale

-----------------------------------------------------------------------------
(* C24: a load that succeeds after a newer call of setLocale has changed    *)
(* the active locale still writes its bundle into the bundle store, and     *)
(* leaves the active locale and every other entry of the store unchanged.   *)
C24_StaleLoadOnlyStores ==
    [][\A call \in BagToSet(inflight) :
          (LoadSucceeds(call) /\ call.since /\ currentLocale # call.locale)
             => /\ BundleOf(translations'[call.locale]) = TranslationFile(call.locale)
                /\ currentLocale' = currentLocale
                /\ \A l \in Locales \ {call.locale} :
                      translations'[l] = translations[l]]_vars

C24_Witness ==
    /\ last.op = "loaded" /\ last.locale = "es" /\ last.overlapped
    /\ currentLocale = "fr"
    /\ config.fallbackLocale = BaseLocale
    /\ \E c \in BagToSet(inflight) : c.locale = "fr" /\ ~c.since
    /\ Loaded(translations) = {BaseLocale, "es"}

-----------------------------------------------------------------------------
(* Placeholders without a format type, checked under TSpec *)

(* The template holds one placeholder, and that one has no format type *)
OnePlainPlaceholder(template) ==
    /\ Cardinality({i \in 1..Len(template) : template[i] = "{"}) = 1
    /\ Cardinality({i \in 1..Len(template) : template[i] = "}"}) = 1
    /\ \A i \in 1..Len(template) : template[i] # ":"
    /\ \E i, j \in 1..Len(template) :
          template[i] = "{" /\ template[j] = "}" /\ i + 1 < j

Opening(template) == CHOOSE i \in 1..Len(template) : template[i] = "{"
Closing(template) == CHOOSE j \in 1..Len(template) : template[j] = "}"

(* The identifier of that placeholder *)
PlaceholderName(template) ==
    Trim(SubSeq(template, Opening(template) + 1, Closing(template) - 1))

(* The template with its placeholder replaced by a text *)
WithValue(template, text) ==
    SubSeq(template, 1, Opening(template) - 1) \o text
       \o SubSeq(template, Closing(template) + 1, Len(template))

(* The last call of t resolved a template with one placeholder without a    *)
(* format type, and params holds a value for it that is not null            *)
PlainValueGiven ==
    /\ tcall.called
    /\ Resolved.kind = "string"
    /\ OnePlainPlaceholder(Resolved.s)
    /\ tcall.params.kind = "object"
    /\ PlaceholderName(Resolved.s) \in DOMAIN tcall.params.m
    /\ tcall.params.m[PlaceholderName(Resolved.s)].kind \notin {"null", "undefined"}

PlainValue == tcall.params.m[PlaceholderName(Resolved.s)]

(* C25, as stated: for every placeholder without a format type and every    *)
(* parameter value that is not null, of any kind (string, number, date,     *)
(* array, other), the placeholder is rendered as the default string         *)
(* conversion of the value, with no locale-aware formatting.                *)
C25_DefaultStringConversion ==
    PlainValueGiven => tcall.result = WithValue(Resolved.s, JSToString(PlainValue))

(* C25, amended: a number is rendered by the default number formatting of   *)
(* the active locale (toLocaleString), an array as the default string       *)
(* conversions of its items joined by a comma and a space, and a value of   *)
(* any other kind as its default string conversion.                         *)
C25_DefaultRendering ==
    PlainValueGiven =>
       tcall.result =
          WithValue(Resolved.s,
             CASE PlainValue.kind = "number" ->
                     NumberToLocaleString(PlainValue.n, currentLocale)
               [] PlainValue.kind = "array" ->
                     JoinValues(PlainValue.items, <<",", " ">>)
               [] OTHER -> JSToString(PlainValue))

C25_Witness ==
    /\ PlainValueGiven
    /\ tcall.key = kHi /\ currentLocale = "en"
    /\ PlainValue.kind = "number" /\ PlainValue.n >= 1000
    /\ tcall.result # WithValue(Resolved.s, JSToString(PlainValue))
    /\ \E i \in 1..Len(tcall.result) : tcall.result[i] = ","

-----------------------------------------------------------------------------
(* A load of the locale has failed, its flag is set, and no load of it is   *)
(* in flight                                                                *)
FailedForGood(locale) ==
    /\ failedLocaleLoads[locale]
    /\ \A c \in BagToSet(inflight) : c.locale # locale

(* C26: once a load of locale L has failed and no other load of L is in     *)
(* flight, every later setLocale(L) returns without invoking the loader:    *)
(* from then on the failure flag of L is never cleared, L's bundle never    *)
(* enters the store and L never becomes the active locale again.            *)
C26_FailedForGood ==
    [][\A locale \in Locales :
          FailedForGood(locale)
             => /\ failedLocaleLoads'[locale]
                /\ \A c \in BagToSet(inflight') : c.locale # locale
                /\ locale \notin Loaded(translations) => locale \notin Loaded(translations')
                /\ currentLocale # locale => currentLocale' # locale]_vars

-----------------------------------------------------------------------------
(* C27: in every reachable state, those reached by overlapping calls of     *)
(* setLocale for the same target included, a locale whose bundle is in the  *)
(* bundle store is not flagged in the failed-load cache.                    *)
C27_LoadedNotFlagged ==
    \A locale \in Loaded(translations) : ~failedLocaleLoads[locale]

-----------------------------------------------------------------------------
(* C28: starting from the initial state (the active locale is the valid     *)
(* persisted locale or else the fallback locale, the bundle store holds the *)
(* fallback bundle only), in every reachable state in which no bundle load  *)
(* is in flight the bundle of the active locale is in the bundle store.     *)
C28_ActiveBundleAtRest ==
    inflight = EmptyBag => currentLocale \in Loaded(translations)

-----------------------------------------------------------------------------
(* The value the active bundle holds for the key of the last call is a      *)
(* mapping, and the call cannot select a template from it: it gives no      *)
(* count, or the mapping has neither the entry the count selects nor other  *)
UnusableMapping ==
    /\ tcall.called
    /\ Entry(ActiveBundle, tcall.key).kind = "object"
    /\ \/ tcall.count.kind = "undefined"
       \/ LET forms == DOMAIN Entry(ActiveBundle, tcall.key).m
          IN  /\ (IF tcall.count.n = 1 THEN cOne ELSE cOther) \notin forms
              /\ cOther \notin forms

(* The fallback bundle holds a template the call could use for the key *)
UsableInFallback ==
    LET value == Entry(FallbackBundle, tcall.key)
    IN  /\ currentLocale # config.fallbackLocale
        /\ value.kind = "object"
        /\ tcall.count.kind = "number"
        /\ cOther \in DOMAIN value.m
        /\ value.m[cOther].kind = "string"

(* C29: the fallback bundle is consulted only when the key resolves to      *)
(* nothing in the active bundle: when the active bundle's value for the key *)
(* is a mapping (a plural object used without a count, a plural object      *)
(* lacking both the selected entry and other, or a branch node), t returns  *)
(* the missing-key representation, whatever the fallback bundle holds for   *)
(* the key.                                                                 *)
C29_MappingNeverFallsBack ==
    /\ (tcall.called /\ Entry(ActiveBundle, tcall.key).kind # "undefined")
          => Resolved = Entry(ActiveBundle, tcall.key)
    /\ UnusableMapping
          => tcall.result = IF config.debug THEN Bracketed(tcall.key)
                            ELSE LastSegment(tcall.key)

C29_Witness ==
    /\ UnusableMapping /\ UsableInFallback
    /\ currentLocale = "fr" /\ config.fallbackLocale = "en"
    /\ tcall.key = kIt /\ tcall.count = JSNumber(2)
    /\ ~config.debug
    /\ tcall.result = kIt

-----------------------------------------------------------------------------
(* Translating the plural keys of a bundle the validator has accepted *)

(* The last run of the validator had its default configuration: only the   *)
(* rule identifying the plural keys was given                               *)
DefaultConfiguration ==
    /\ vcall.options.requiredPluralKeys = Null
    /\ vcall.options.optionalPluralKeys = Null
    /\ vcall.options.allowedDateFormats = Null
    /\ vcall.options.validateAllPlaceholdersSyntax = Null

(* The node is reached from the root through mappings only *)
ThroughMappings(n) == \A i \in 1..Len(n.path) : n.path[i].index = -1

(* The keys on the path of the node, joined by dots *)
RECURSIVE DotPathFrom(_, _)
DotPathFrom(path, i) ==
    IF i = Len(path) THEN path[i].key
    ELSE path[i].key \o <<".">> \o DotPathFrom(path, i + 1)
DotPath(n) == DotPathFrom(n.path, 1)

(* No key on the path of the node has a dot in it *)
DotFree(n) ==
    \A i \in 1..Len(n.path) : \A j \in 1..Len(n.path[i].key) : n.path[i].key[j] # "."

(* The renderings of the templates of a plural mapping for the params and  *)
(* the count of the last call of t                                          *)
TemplateRenderings(value) ==
    IF value.kind # "object" THEN {}
    ELSE {applyParams(value.m[k].s, SpreadWithCount(tcall.params, tcall.count),
                      VGlobals(tcall.now))
          : k \in {c \in DOMAIN value.m : value.m[c].kind = "string"}}

(* t has been called with a count on a bundle the validator with its       *)
(* default configuration has no issue with, for the dot-path of this node   *)
CalledForPlural(n) ==
    /\ vcall.parsed /\ vcall.issues = <<>> /\ DefaultConfiguration
    /\ tcall.called /\ tcall.count.kind = "number"
    /\ ThroughMappings(n)
    /\ tcall.key = DotPath(n)

(* C30, as stated: on a bundle the validator with its default configuration *)
(* reports no issue for, t called with a count for the dot-path of any      *)
(* plural-identified key reached through mappings returns the rendering of  *)
(* one of the templates of the mapping of that key                          *)
C30_AcceptedPluralsTranslate ==
    \A n \in PluralKeyNodes :
        CalledForPlural(n) => tcall.result \in TemplateRenderings(n.value)

(* C30, amended: the same of the plural-identified keys with no dot in any  *)
(* key of their path and no key named __proto__ on it                       *)
C30_AcceptedPlainPluralsTranslate ==
    \A n \in PluralKeyNodes :
        CalledForPlural(n) /\ DotFree(n) /\ ~n.dropped =>
            tcall.result \in TemplateRenderings(n.value)

(* C30: t has been called with count 2 for a.nCount on the accepted bundle  *)
(* { a: { nCount: { one: "n", other: "{count} n" } } } and has returned     *)
(* "2 n"                                                                     *)
C30_Witness ==
    /\ \E n \in PluralKeyNodes :
          CalledForPlural(n) /\ DotFree(n) /\ ~n.dropped /\ Len(n.path) = 2
    /\ tcall.count = JSNumber(2)
    /\ tcall.result = <<"2", " ", "n">>

====
